---------------------------- MODULE Spec2Model ----------------------------
(***************************************************************************)
(* The lock controller (BLE server with pairing, whitelist, rate limiting  *)
(* and application-layer HMAC challenge/response) as a state machine.      *)
(* Every callback the BLE stack can invoke is one action; the globals of   *)
(* the sketch are the variables.  Text is a sequence of one-character      *)
(* strings, so that case conversion, prefixes and hex formatting are       *)
(* computed the way the sketch computes them.                              *)
(***************************************************************************)
EXTENDS Integers, Sequences, FiniteSets, TLC

VARIABLES
  deviceConnected,      \* bool deviceConnected
  isAuthenticated,      \* bool isAuthenticated
  bleAuthenticated,     \* bool bleAuthenticated
  currentConnId,        \* uint16_t currentConnId
  lastDisconnectReason, \* DisconnectReason lastDisconnectReason
  isLocked,             \* bool isLocked
  whitelist,            \* std::vector<String> whitelist
  nvs,                  \* Preferences "ble_lock"/"whitelist": the stored csv
  failedAttempts,       \* std::map<String,int> failedAttempts (absent = 0)
  lockoutUntil,         \* std::map<String,unsigned long> lockoutUntil
  challenges,           \* std::map<String,std::vector<uint8_t>> challenges
  lastRemoteAddr,       \* String lastRemoteAddr
  now,                  \* millis()
  connPeer,             \* the device that holds the link (the stack's knowledge)
  ev,                   \* the last callback: its kind and its outputs
  \* the key (BLE client)
  connected,            \* bool connected
  rssiHistory,          \* std::vector<int> rssiHistory (median variant)
  rssiBuffer,           \* std::vector<int> rssiBuffer (averaging variant)
  lockStatus,           \* LockStatus lockStatus
  connectionRetries,    \* int connectionRetries
  lastRssiCheckTime,    \* unsigned long lastRssiCheckTime
  lastRssiTriggerTime,  \* unsigned long lastRssiTriggerTime
  isManualLock,         \* bool isManualLock
  pWriteCharacteristic, \* whether the write characteristic pointer is set
  keyPc,                \* where the key is: "setup", "connecting", "loop"
  keyNow,               \* millis() of the key
  lastAutoWrite,        \* the last command an auto-trigger wrote, and when
  kev                   \* the last callback of the key and what it wrote

ctlVars == <<deviceConnected, isAuthenticated, bleAuthenticated, currentConnId,
             lastDisconnectReason, isLocked, whitelist, nvs, failedAttempts,
             lockoutUntil, challenges, lastRemoteAddr, now, connPeer, ev>>

keyVars == <<connected, rssiHistory, rssiBuffer, lockStatus, connectionRetries,
             lastRssiCheckTime, lastRssiTriggerTime, isManualLock,
             pWriteCharacteristic, keyPc, keyNow, lastAutoWrite, kev>>

vars == <<ctlVars, keyVars>>

---------------------------------------------------------------------------
(* Bounds of the model *)

\* the failure counter is not allowed to grow past this value
MaxFailed == 6
\* the failures counted against the empty address "" (lastRemoteAddr before
\* the first GAP event after boot) are not allowed to grow past this value
MaxBootFailed == 1
\* number of clock steps
MaxTicks == 2

---------------------------------------------------------------------------
(* Program constants *)

MAX_FAILED_ATTEMPTS == 5
LOCKOUT_DURATION_MS == 300000
PASSKEY == 123456
NONCE_LEN == 16
HMAC_LEN == 32

\* one clock step of the model: a lockout duration
TickMs == LOCKOUT_DURATION_MS

---------------------------------------------------------------------------
(* Text: Arduino String as a sequence of characters *)

LowerChars == <<"a","b","c","d","e","f","g","h","i","j","k","l","m",
                "n","o","p","q","r","s","t","u","v","w","x","y","z">>
UpperChars == <<"A","B","C","D","E","F","G","H","I","J","K","L","M",
                "N","O","P","Q","R","S","T","U","V","W","X","Y","Z">>

UpperOf == [c \in {LowerChars[i] : i \in 1..26} |->
              UpperChars[CHOOSE i \in 1..26 : LowerChars[i] = c]]
LowerOf == [c \in {UpperChars[i] : i \in 1..26} |->
              LowerChars[CHOOSE i \in 1..26 : UpperChars[i] = c]]

\* toupper / tolower of one character
toUpperChar(c) == IF c \in DOMAIN UpperOf THEN UpperOf[c] ELSE c

toLowerChar(c) == IF c \in DOMAIN LowerOf THEN LowerOf[c] ELSE c

\* String::toUpperCase
toUpperCase(s) == [i \in 1..Len(s) |-> toUpperChar(s[i])]

toLowerCase(s) == [i \in 1..Len(s) |-> toLowerChar(s[i])]

\* String::equalsIgnoreCase: same length and equal characters after tolower
equalsIgnoreCase(a, b) ==
  /\ Len(a) = Len(b)
  /\ \A i \in 1..Len(a) : toLowerChar(a[i]) = toLowerChar(b[i])

\* String::startsWith
startsWith(s, prefix) ==
  /\ Len(s) >= Len(prefix)
  /\ SubSeq(s, 1, Len(prefix)) = prefix

\* String::substring(from): the tail that starts at 0-based index from
substring(s, from) == SubSeq(s, from + 1, Len(s))

HexMap == <<"0","1","2","3","4","5","6","7","8","9","A","B","C","D","E","F">>

\* toHex: two upper-case hex digits per byte, high nibble first
toHex(data) ==
  [i \in 1..(2 * Len(data)) |->
     LET v == data[(i + 1) \div 2]
     IN IF i % 2 = 1 THEN HexMap[((v \div 16) % 16) + 1]
                     ELSE HexMap[(v % 16) + 1]]

\* sprintf("%02X:%02X:%02X:%02X:%02X:%02X", bda[0..5])
macToString(bda) ==
  [i \in 1..(3 * Len(bda) - 1) |->
     IF i % 3 = 0 THEN ":"
     ELSE LET v == bda[(i + 2) \div 3]
          IN IF i % 3 = 1 THEN HexMap[((v \div 16) % 16) + 1]
                          ELSE HexMap[(v % 16) + 1]]

RESP_PREFIX == <<"R","E","S","P",":">>
CHALLENGE_PREFIX == <<"C","H","A","L","L","E","N","G","E",":">>
AUTH_OK == <<"A","U","T","H","_","O","K">>
AUTH_FAIL == <<"A","U","T","H","_","F","A","I","L">>
INVALID_COMMAND == <<"I","N","V","A","L","I","D","_","C","O","M","M","A","N","D">>

TXT_LOCK == <<"L","O","C","K">>
TXT_UNLOCK == <<"U","N","L","O","C","K">>
TXT_TRUNK == <<"T","R","U","N","K">>
TXT_LOCATE == <<"L","O","C","A","T","E">>
TXT_ELIGHT == <<"E","L","I","G","H","T">>


\* COMMAND_RESPONSES: the acknowledgement of each command keyword
COMMAND_RESPONSES ==
  (TXT_LOCK :> <<"D","o","o","r"," ","L","o","c","k","e","d">>) @@
  (TXT_UNLOCK :> <<"D","o","o","r"," ","U","n","l","o","c","k","e","d">>) @@
  (TXT_LOCATE :> <<"L","o","c","a","t","e","d">>) @@
  (TXT_TRUNK :> <<"T","r","u","n","k"," ","R","e","l","e","a","s","e","d">>) @@
  (TXT_ELIGHT :> <<"E","m","e","r","g","e","n","c","y"," ","L","i","g","h","t">>)

\* parseCommand: upper-case the text, then compare with the keywords
parseCommand(command) ==
  LET cmd == toUpperCase(command)
  IN IF cmd = TXT_LOCK THEN "LOCK"
     ELSE IF cmd = TXT_UNLOCK THEN "UNLOCK"
     ELSE IF cmd = TXT_TRUNK THEN "TRUNK"
     ELSE IF cmd = TXT_LOCATE THEN "LOCATE"
     ELSE IF cmd = TXT_ELIGHT THEN "ELIGHT"
     ELSE "UNKNOWN"

---------------------------------------------------------------------------
(* The application-layer secret, nonces and the keyed hash *)

\* APP_SECRET = "SuperSecretAppKey_ReplaceThis" as bytes
APP_SECRET == <<83, 117, 112, 101, 114, 83, 101, 99, 114, 101, 116, 65, 112,
                112, 75, 101, 121, 95, 82, 101, 112, 108, 97, 99, 101, 84,
                104, 105, 115>>

RECURSIVE SumBytes(_)
SumBytes(s) == IF s = <<>> THEN 0 ELSE Head(s) + SumBytes(Tail(s))

\* compute_hmac_sha256: the SHA-256 primitive is an external black box; it is
\* represented by a deterministic 32-byte function of key and data that
\* separates the nonces of the model
compute_hmac_sha256(key, data) ==
  LET ks == SumBytes(key)
      ds == SumBytes(data)
  IN [i \in 1..HMAC_LEN |-> (ks + i * (ds + 1)) % 256]

\* the values esp_random() fills a nonce with in the model: every byte of a
\* nonce is the same value, one nonce per value
NonceBytes == {58, 197}

\* generateNonce(len): the nonces the random source can produce
generateNonce(len) == { [i \in 1..len |-> b] : b \in NonceBytes }

Nonces == generateNonce(NONCE_LEN)

---------------------------------------------------------------------------
(* Peers *)

\* bluetooth device addresses of the two key devices of the model
Peers == { <<170, 187, 204, 221, 238, 1>>, <<170, 187, 204, 221, 238, 2>> }

\* the key device of the single-key scenarios
Key1 == <<170, 187, 204, 221, 238, 1>>

NoPeer == <<>>

\* every value lastRemoteAddr can take: "" after boot, or a formatted address
Addrs == { <<>> } \cup { macToString(p) : p \in Peers }

---------------------------------------------------------------------------
(* Whitelist and its persistence *)

\* isWhitelisted: linear search with equalsIgnoreCase
isWhitelisted(wl, mac) == \E i \in 1..Len(wl) : equalsIgnoreCase(wl[i], mac)

RECURSIVE JoinCsv(_)
JoinCsv(wl) ==
  IF wl = <<>> THEN <<>>
  ELSE IF Len(wl) = 1 THEN wl[1]
  ELSE wl[1] \o <<",">> \o JoinCsv(Tail(wl))

\* a saveWhitelist that writes the first entry only
saveWhitelistFirstOnly(wl) == IF wl = <<>> THEN <<>> ELSE wl[1]

\* saveWhitelist: the csv written to the preferences store
saveWhitelist(wl) == JoinCsv(wl)

RECURSIVE trim(_)
trim(s) ==
  IF s = <<>> THEN s
  ELSE IF Head(s) = " " THEN trim(Tail(s))
  ELSE IF s[Len(s)] = " " THEN trim(SubSeq(s, 1, Len(s) - 1))
  ELSE s

\* indexOf(',', start): 0-based index of the next comma, -1 when none
indexOfComma(csv, start) ==
  IF \E i \in start..(Len(csv) - 1) : csv[i + 1] = ","
  THEN CHOOSE i \in start..(Len(csv) - 1) :
         /\ csv[i + 1] = ","
         /\ \A j \in start..(i - 1) : csv[j + 1] # ","
  ELSE -1

RECURSIVE SplitFrom(_, _)
SplitFrom(csv, start) ==
  IF start >= Len(csv) THEN <<>>
  ELSE LET found == indexOfComma(csv, start)
           idx == IF found = -1 THEN Len(csv) ELSE found
           mac == trim(SubSeq(csv, start + 1, idx))
       IN (IF Len(mac) > 0 THEN <<mac>> ELSE <<>>) \o SplitFrom(csv, idx + 1)

\* loadWhitelist: the vector read back from the stored csv
loadWhitelist(csv) == IF Len(csv) = 0 THEN <<>> ELSE SplitFrom(csv, 0)

\* an addToWhitelist that does not look for the entry first
addToWhitelistAlways(wl, mac) == Append(wl, mac)

\* addToWhitelist: push_back unless already present
addToWhitelist(wl, mac) == IF ~isWhitelisted(wl, mac) THEN Append(wl, mac) ELSE wl

\* the store after addToWhitelist: rewritten only when the vector grew
nvsAfterAdd(store, wl, mac) ==
  IF ~isWhitelisted(wl, mac) THEN saveWhitelist(Append(wl, mac)) ELSE store

\* removeFromWhitelist: erase the first entry that equals mac ignoring case
removeFromWhitelist(wl, mac) ==
  IF isWhitelisted(wl, mac)
  THEN LET k == CHOOSE i \in 1..Len(wl) :
                  /\ equalsIgnoreCase(wl[i], mac)
                  /\ \A j \in 1..(i - 1) : ~equalsIgnoreCase(wl[j], mac)
       IN SubSeq(wl, 1, k - 1) \o SubSeq(wl, k + 1, Len(wl))
  ELSE wl

\* the store after removeFromWhitelist: rewritten only when an entry went
nvsAfterRemove(store, wl, mac) ==
  IF isWhitelisted(wl, mac) THEN saveWhitelist(removeFromWhitelist(wl, mac))
  ELSE store

---------------------------------------------------------------------------
(* Lockout bookkeeping, as the callbacks spell it out inline *)

\* int &fa = failedAttempts[addr]; fa++;
failedAfter(fa, addr) == [fa EXCEPT ![addr] = @ + 1]

\* if (fa >= MAX_FAILED_ATTEMPTS) lockoutUntil[addr] = millis() + LOCKOUT_DURATION_MS;
\* (the clock of the model stays far below the 32-bit range of unsigned long,
\* so the sum never wraps)
lockoutAfter(lu, count, addr, t) ==
  IF count >= MAX_FAILED_ATTEMPTS
  THEN (addr :> (t + LOCKOUT_DURATION_MS)) @@ lu
  ELSE lu

\* a lockout check that never finds a lockout
lockoutInForceNever(lu, addr, t) == FALSE

\* itLock != lockoutUntil.end() && millis() < itLock->second
lockoutInForce(lu, addr, t) == addr \in DOMAIN lu /\ t < lu[addr]

\* a lockout check that never finds an expired record
lockoutExpiredNever(lu, addr, t) == FALSE

\* itLock != lockoutUntil.end() && !(millis() < itLock->second)
lockoutExpired(lu, addr, t) == addr \in DOMAIN lu /\ ~(t < lu[addr])

\* lockoutUntil.erase(itLock)
eraseKey(m, k) == [x \in (DOMAIN m) \ {k} |-> m[x]]

\* if (pServer != nullptr && currentConnId > 0) pServer->disconnect(currentConnId);
disconnectCalled(connId) == connId > 0

\* a gate that asks for the application-layer flag only
commandAllowedAppOnly(ble, app) == app

\* the gate of the command dispatcher: !( !bleAuthenticated || !isAuthenticated )
commandAllowed(ble, app) == ble /\ app

\* "CHALLENGE:" + toHex(nonce)
challengeMsg(nonce) == CHALLENGE_PREFIX \o toHex(nonce)

\* challengeMsg over the nonces of the model, computed once
ChallengeMsgOf == [n \in Nonces |-> challengeMsg(n)]

\* the hex string the controller expects for a nonce
expectedHex(nonce) == toHex(compute_hmac_sha256(APP_SECRET, nonce))

\* expectedHex over the nonces of the model, computed once
ExpectedHexOf == [n \in Nonces |-> expectedHex(n)]

\* the bound of the model on the failure counter of an address
FailureCap(addr) == IF addr = <<>> THEN MaxBootFailed ELSE MaxFailed

---------------------------------------------------------------------------
(* Inputs *)

\* "RESP:" followed by the digest of nonce n, as toHex writes it
RespOf(n) == RESP_PREFIX \o ExpectedHexOf[n]

\* the texts a peer writes to the command characteristic in the model
WriteValues ==
  { RespOf(n) : n \in Nonces }
  \cup { RESP_PREFIX \o toLowerCase(ExpectedHexOf[n]) : n \in Nonces }
  \cup { RESP_PREFIX }
  \cup { TXT_LOCK, TXT_UNLOCK, TXT_TRUNK, TXT_LOCATE, TXT_ELIGHT,
         <<"l","o","c","k">>, <<"O","P","E","N">> }

\* the passkeys the stack asks the controller to confirm
PassKeys == { PASSKEY, 0 }

\* the connection ids the stack hands out: 0 (the first link) or not 0
ConnIds == {0, 1}

---------------------------------------------------------------------------
(* The record of the last callback *)

\* what a written text is to onWrite: a challenge response or a command
KindOf(v) == IF startsWith(v, RESP_PREFIX) THEN "resp" ELSE "cmd"

\* kind: which callback ran ("connect", "disconnect", "update", "link_ok",
\* "link_fail", "pin_ok", "resp", "cmd"); resp: the receivedValue of a
\* challenge response that got past the lockout check; notes: the
\* notifications it sent on pCharacteristic_1; act: the pin it drove; disc:
\* whether it called pServer->disconnect; gate: what its lockout check found;
\* wl: what an accepted response did to the whitelist ("added", "present"
\* when addToWhitelist found the entry, "skipped" when it was not called)
EvBase(kind) == [kind |-> kind, resp |-> <<>>, notes |-> <<>>, act |-> "NONE",
                 disc |-> FALSE, gate |-> "none", wl |-> "none"]

---------------------------------------------------------------------------
(* The key after a start: every global is in RAM, so a power-on, a wake   *)
(* from deep sleep and esp_restart() all begin here                        *)

\* kind: which callback of the key ran; out: the commands it wrote to the
\* command channel, in order, each with whether an auto-trigger wrote it;
\* metric: the smoothed signal it handed to the auto-trigger (<<>> when it
\* handed none); sleep: the seconds of deep sleep it asked for (0: none)
KevBase(kind) == [kind |-> kind, out |-> <<>>, metric |-> <<>>, sleep |-> 0]

\* the globals as their initialisers leave them
KeyGlobalsAfterStart ==
  /\ connected = FALSE
  /\ rssiHistory = <<>>
  /\ rssiBuffer = <<>>
  /\ lockStatus = "NONE"
  /\ connectionRetries = 0
  /\ lastRssiCheckTime = 0
  /\ lastRssiTriggerTime = 0
  /\ isManualLock = FALSE
  /\ pWriteCharacteristic = FALSE
  /\ keyPc = "setup"
  /\ keyNow = 0
  /\ lastAutoWrite = [cmd |-> "NONE", at |-> 0]

KeyBoot == KeyGlobalsAfterStart /\ kev = KevBase("boot")

---------------------------------------------------------------------------
(* Initial state: the globals after setup() *)

Init ==
  /\ deviceConnected = FALSE
  /\ isAuthenticated = FALSE
  /\ bleAuthenticated = FALSE
  /\ currentConnId = 0
  /\ lastDisconnectReason = "NORMAL"
  /\ isLocked = FALSE
  /\ nvs = <<>>
  /\ whitelist = loadWhitelist(nvs)
  /\ failedAttempts = [a \in Addrs |-> 0]
  /\ lockoutUntil = << >>
  /\ challenges = << >>
  /\ lastRemoteAddr = <<>>
  /\ now = 0
  /\ connPeer = NoPeer
  /\ ev = EvBase("setup")
  /\ KeyBoot

---------------------------------------------------------------------------
(* MyServerCallbacks *)

\* onConnect: a device p takes the link, the stack hands out connection id cid
OnConnect(p, cid) ==
  /\ ~deviceConnected
  /\ deviceConnected' = TRUE
  /\ currentConnId' = cid
  /\ isAuthenticated' = FALSE
  /\ bleAuthenticated' = FALSE
  /\ lastDisconnectReason' = "NORMAL"
  /\ connPeer' = p
  /\ ev' = EvBase("connect")
  /\ UNCHANGED <<isLocked, whitelist, nvs, failedAttempts, lockoutUntil,
                 challenges, lastRemoteAddr, now>>
  /\ UNCHANGED keyVars

\* an onDisconnect that also forgets the failure counts
OnDisconnectForgetting ==
  /\ deviceConnected
  /\ deviceConnected' = FALSE
  /\ currentConnId' = 0
  /\ isAuthenticated' = FALSE
  /\ bleAuthenticated' = FALSE
  /\ connPeer' = NoPeer
  /\ failedAttempts' = [a \in Addrs |-> 0]
  /\ ev' = EvBase("disconnect")
  /\ UNCHANGED <<lastDisconnectReason, isLocked, whitelist, nvs,
                 lockoutUntil, challenges, lastRemoteAddr, now>>
  /\ UNCHANGED keyVars

\* onDisconnect, with performLock() when the disconnect was a normal one
OnDisconnect ==
  /\ deviceConnected
  /\ deviceConnected' = FALSE
  /\ currentConnId' = 0
  /\ isAuthenticated' = FALSE
  /\ bleAuthenticated' = FALSE
  /\ connPeer' = NoPeer
  /\ IF lastDisconnectReason = "NORMAL" /\ ~isLocked
     THEN /\ isLocked' = TRUE
          /\ ev' = [EvBase("disconnect") EXCEPT !.act = "LOCK"]
     ELSE /\ isLocked' = isLocked
          /\ ev' = EvBase("disconnect")
  /\ UNCHANGED <<lastDisconnectReason, whitelist, nvs, failedAttempts,
                 lockoutUntil, challenges, lastRemoteAddr, now>>
  /\ UNCHANGED keyVars

---------------------------------------------------------------------------
(* gapCallback *)

\* ESP_GAP_BLE_UPDATE_CONN_PARAMS_EVT for the connected device
GapUpdateConnParams ==
  /\ deviceConnected
  /\ LET addr == macToString(connPeer)
     IN /\ lastRemoteAddr' = addr
        /\ IF lockoutInForce(lockoutUntil, addr, now)
           THEN /\ ev' = [EvBase("update") EXCEPT
                            !.disc = disconnectCalled(currentConnId),
                            !.gate = "locked"]
                /\ UNCHANGED <<lockoutUntil, failedAttempts>>
           ELSE IF lockoutExpired(lockoutUntil, addr, now)
           THEN /\ lockoutUntil' = eraseKey(lockoutUntil, addr)
                /\ failedAttempts' = [failedAttempts EXCEPT ![addr] = 0]
                /\ ev' = [EvBase("update") EXCEPT !.gate = "expired"]
           ELSE /\ ev' = EvBase("update")
                /\ UNCHANGED <<lockoutUntil, failedAttempts>>
  /\ UNCHANGED <<deviceConnected, isAuthenticated, bleAuthenticated,
                 currentConnId, lastDisconnectReason, isLocked, whitelist, nvs,
                 challenges, now, connPeer>>
  /\ UNCHANGED keyVars

\* a success branch that issues no challenge to a whitelisted peer
AuthSuccessSkipsWhitelisted(addr, nonce) ==
  /\ bleAuthenticated' = TRUE
  /\ failedAttempts' = [failedAttempts EXCEPT ![addr] = 0]
  /\ IF isWhitelisted(whitelist, addr)
     THEN /\ challenges' = challenges
          /\ ev' = EvBase("link_ok")
     ELSE /\ challenges' = (addr :> nonce) @@ challenges
          /\ ev' = [EvBase("link_ok") EXCEPT !.notes = <<ChallengeMsgOf[nonce]>>]
  /\ UNCHANGED <<lockoutUntil>>

\* the success branch shared by both authentication-complete callbacks:
\* bleAuthenticated = true, the counter reset, a new nonce stored and sent
AuthSuccess(addr, nonce) ==
  /\ bleAuthenticated' = TRUE
  /\ failedAttempts' = [failedAttempts EXCEPT ![addr] = 0]
  /\ challenges' = (addr :> nonce) @@ challenges
  /\ ev' = [EvBase("link_ok") EXCEPT !.notes = <<ChallengeMsgOf[nonce]>>]
  /\ UNCHANGED <<lockoutUntil>>

\* the failure branch shared by the link-level callbacks: bleAuthenticated =
\* false, one failure counted, lockout at the threshold, disconnect
LinkFailure(addr) ==
  /\ failedAttempts[addr] < FailureCap(addr)
  /\ bleAuthenticated' = FALSE
  /\ failedAttempts' = failedAfter(failedAttempts, addr)
  /\ lockoutUntil' = lockoutAfter(lockoutUntil, failedAttempts'[addr], addr, now)
  /\ ev' = [EvBase("link_fail") EXCEPT !.disc = disconnectCalled(currentConnId)]
  /\ UNCHANGED <<challenges>>

\* ESP_GAP_BLE_AUTH_CMPL_EVT for the connected device
GapAuthCmpl(success) ==
  /\ deviceConnected
  /\ LET addr == macToString(connPeer)
     IN /\ lastRemoteAddr' = addr
        /\ IF success
           THEN /\ \E nonce \in generateNonce(NONCE_LEN) : AuthSuccess(addr, nonce)
                /\ UNCHANGED lastDisconnectReason
           ELSE /\ LinkFailure(addr)
                /\ lastDisconnectReason' = "AUTH_FAILURE"
  /\ UNCHANGED <<deviceConnected, isAuthenticated, currentConnId, isLocked,
                 whitelist, nvs, now, connPeer>>
  /\ UNCHANGED keyVars

---------------------------------------------------------------------------
(* MySecurityCallbacks *)

\* onConfirmPIN(pass_key)
OnConfirmPIN(pass_key) ==
  /\ deviceConnected
  /\ LET match == (pass_key = PASSKEY)
     IN IF ~match
        THEN LinkFailure(lastRemoteAddr)
        ELSE /\ ev' = EvBase("pin_ok")
             /\ UNCHANGED <<bleAuthenticated, failedAttempts, lockoutUntil,
                            challenges>>
  /\ UNCHANGED <<deviceConnected, isAuthenticated, currentConnId,
                 lastDisconnectReason, isLocked, whitelist, nvs,
                 lastRemoteAddr, now, connPeer>>
  /\ UNCHANGED keyVars

\* onAuthenticationComplete(auth_cmpl)
OnAuthenticationComplete(success) ==
  /\ deviceConnected
  /\ LET addr == macToString(connPeer)
     IN /\ lastRemoteAddr' = addr
        /\ IF success
           THEN \E nonce \in generateNonce(NONCE_LEN) : AuthSuccess(addr, nonce)
           ELSE LinkFailure(addr)
  /\ UNCHANGED <<deviceConnected, isAuthenticated, currentConnId,
                 lastDisconnectReason, isLocked, whitelist, nvs, now, connPeer>>
  /\ UNCHANGED keyVars

---------------------------------------------------------------------------
(* CharacteristicCallBack::onWrite *)

\* the write of a device in lockout: ignored
WriteLockedOut(v) ==
  /\ ev' = [EvBase(KindOf(v)) EXCEPT !.gate = "locked"]
  /\ UNCHANGED <<isAuthenticated, isLocked, whitelist, nvs, failedAttempts,
                 lockoutUntil, challenges>>

\* a no-challenge branch that lets the response through
RespNoChallengeAccepted(v, remote, fa1, lu1, gate) ==
  /\ isAuthenticated' = TRUE
  /\ failedAttempts' = fa1
  /\ lockoutUntil' = lu1
  /\ ev' = [EvBase(KindOf(v)) EXCEPT !.gate = gate, !.resp = v]
  /\ UNCHANGED <<isLocked, whitelist, nvs, challenges>>

\* "RESP:<hex>" with no stored challenge: one failure counted, no reply
RespNoChallenge(v, remote, fa1, lu1, gate) ==
  /\ fa1[remote] < FailureCap(remote)
  /\ failedAttempts' = failedAfter(fa1, remote)
  /\ lockoutUntil' = lockoutAfter(lu1, failedAttempts'[remote], remote, now)
  /\ ev' = [EvBase(KindOf(v)) EXCEPT !.gate = gate, !.resp = v]
  /\ UNCHANGED <<isAuthenticated, isLocked, whitelist, nvs, challenges>>

\* "RESP:<hex>" whose hex equals the expected digest, ignoring case
RespMatch(v, remote, fa1, lu1, gate) ==
  /\ isAuthenticated' = TRUE
  /\ IF bleAuthenticated
     THEN /\ whitelist' = addToWhitelist(whitelist, remote)
          /\ nvs' = nvsAfterAdd(nvs, whitelist, remote)
     ELSE UNCHANGED <<whitelist, nvs>>
  /\ challenges' = eraseKey(challenges, remote)
  /\ failedAttempts' = fa1
  /\ lockoutUntil' = lu1
  /\ ev' = [EvBase(KindOf(v)) EXCEPT
              !.gate = gate, !.resp = v, !.notes = <<AUTH_OK>>,
              !.wl = IF ~bleAuthenticated THEN "skipped"
                     ELSE IF isWhitelisted(whitelist, remote) THEN "present"
                     ELSE "added"]
  /\ UNCHANGED <<isLocked>>

\* a mismatch branch that admits the peer to the whitelist all the same
RespMismatchWhitelisting(v, remote, fa1, lu1, gate) ==
  /\ fa1[remote] < FailureCap(remote)
  /\ failedAttempts' = failedAfter(fa1, remote)
  /\ lockoutUntil' = lockoutAfter(lu1, failedAttempts'[remote], remote, now)
  /\ whitelist' = addToWhitelist(whitelist, remote)
  /\ nvs' = nvsAfterAdd(nvs, whitelist, remote)
  /\ ev' = [EvBase(KindOf(v)) EXCEPT !.gate = gate, !.resp = v,
                                     !.notes = <<AUTH_FAIL>>]
  /\ UNCHANGED <<isAuthenticated, isLocked, challenges>>

\* "RESP:<hex>" with a digest that does not match: one failure, AUTH_FAIL
RespMismatch(v, remote, fa1, lu1, gate) ==
  /\ fa1[remote] < FailureCap(remote)
  /\ failedAttempts' = failedAfter(fa1, remote)
  /\ lockoutUntil' = lockoutAfter(lu1, failedAttempts'[remote], remote, now)
  /\ ev' = [EvBase(KindOf(v)) EXCEPT !.gate = gate, !.resp = v,
                                     !.notes = <<AUTH_FAIL>>]
  /\ UNCHANGED <<isAuthenticated, isLocked, whitelist, nvs, challenges>>

\* a RESP branch that accepts any digest once a challenge is stored
WriteRespAnyDigest(v, remote, fa1, lu1, gate) ==
  IF remote \notin DOMAIN challenges
  THEN RespNoChallenge(v, remote, fa1, lu1, gate)
  ELSE RespMatch(v, remote, fa1, lu1, gate)

\* the branch receivedValue.startsWith("RESP:")
WriteResp(v, remote, fa1, lu1, gate) ==
  LET respHex == substring(v, 5)
  IN IF remote \notin DOMAIN challenges
     THEN RespNoChallenge(v, remote, fa1, lu1, gate)
     ELSE IF equalsIgnoreCase(ExpectedHexOf[challenges[remote]], respHex)
     THEN RespMatch(v, remote, fa1, lu1, gate)
     ELSE RespMismatch(v, remote, fa1, lu1, gate)

\* a rejection that counts a failure against the peer
WriteUnauthorizedCounting(v, remote, fa1, lu1, gate) ==
  /\ failedAttempts' = [fa1 EXCEPT ![remote] = MAX_FAILED_ATTEMPTS]
  /\ lockoutUntil' = lockoutAfter(lu1, MAX_FAILED_ATTEMPTS, remote, now)
  /\ ev' = [EvBase(KindOf(v)) EXCEPT !.gate = gate]
  /\ UNCHANGED <<isAuthenticated, isLocked, whitelist, nvs, challenges>>

\* a rejection that still clears isLocked for an UNLOCK text
WriteUnauthorizedUnlocking(v, remote, fa1, lu1, gate) ==
  /\ failedAttempts' = fa1
  /\ lockoutUntil' = lu1
  /\ isLocked' = IF parseCommand(v) = "UNLOCK" THEN FALSE ELSE isLocked
  /\ ev' = [EvBase(KindOf(v)) EXCEPT
              !.gate = gate,
              !.notes = IF bleAuthenticated /\ ~isAuthenticated
                           /\ remote \in DOMAIN challenges
                        THEN <<ChallengeMsgOf[challenges[remote]]>>
                        ELSE <<>>]
  /\ UNCHANGED <<isAuthenticated, whitelist, nvs, challenges>>

\* a command before both authentications: ignored, the pending challenge
\* sent again when the link is authenticated
WriteUnauthorized(v, remote, fa1, lu1, gate) ==
  /\ failedAttempts' = fa1
  /\ lockoutUntil' = lu1
  /\ ev' = [EvBase(KindOf(v)) EXCEPT
              !.gate = gate,
              !.notes = IF bleAuthenticated /\ ~isAuthenticated
                           /\ remote \in DOMAIN challenges
                        THEN <<ChallengeMsgOf[challenges[remote]]>>
                        ELSE <<>>]
  /\ UNCHANGED <<isAuthenticated, isLocked, whitelist, nvs, challenges>>

\* a dispatcher that drives the lock pins only when isLocked changes
WriteCommandOnChange(v, fa1, lu1, gate) ==
  LET cmd == parseCommand(v)
      found == v \in DOMAIN COMMAND_RESPONSES
      response == IF found THEN COMMAND_RESPONSES[v] ELSE INVALID_COMMAND
      idle == \/ cmd = "LOCK" /\ isLocked
              \/ cmd = "UNLOCK" /\ ~isLocked
  IN /\ isLocked' = IF found /\ cmd = "LOCK" THEN TRUE
                    ELSE IF found /\ cmd = "UNLOCK" THEN FALSE
                    ELSE isLocked
     /\ failedAttempts' = fa1
     /\ lockoutUntil' = lu1
     /\ ev' = [EvBase(KindOf(v)) EXCEPT
                 !.gate = gate,
                 !.act = IF found /\ cmd # "UNKNOWN" /\ ~idle THEN cmd
                         ELSE "NONE",
                 !.notes = <<response>>]
     /\ UNCHANGED <<isAuthenticated, whitelist, nvs, challenges>>

\* a dispatcher that answers the texts it knows only
WriteCommandKnownOnly(v, fa1, lu1, gate) ==
  LET cmd == parseCommand(v)
      found == v \in DOMAIN COMMAND_RESPONSES
  IN /\ isLocked' = IF found /\ cmd = "LOCK" THEN TRUE
                    ELSE IF found /\ cmd = "UNLOCK" THEN FALSE
                    ELSE isLocked
     /\ failedAttempts' = fa1
     /\ lockoutUntil' = lu1
     /\ ev' = [EvBase(KindOf(v)) EXCEPT
                 !.gate = gate,
                 !.act = IF found /\ cmd # "UNKNOWN" THEN cmd ELSE "NONE",
                 !.notes = IF found THEN <<COMMAND_RESPONSES[v]>> ELSE <<>>]
     /\ UNCHANGED <<isAuthenticated, whitelist, nvs, challenges>>

\* the dispatcher: COMMAND_RESPONSES.find(receivedValue), switch (cmd)
WriteCommand(v, fa1, lu1, gate) ==
  LET cmd == parseCommand(v)
      found == v \in DOMAIN COMMAND_RESPONSES
      response == IF found THEN COMMAND_RESPONSES[v] ELSE INVALID_COMMAND
  IN /\ isLocked' = IF found /\ cmd = "LOCK" THEN TRUE
                    ELSE IF found /\ cmd = "UNLOCK" THEN FALSE
                    ELSE isLocked
     /\ failedAttempts' = fa1
     /\ lockoutUntil' = lu1
     /\ ev' = [EvBase(KindOf(v)) EXCEPT
                 !.gate = gate,
                 !.act = IF found /\ cmd # "UNKNOWN" THEN cmd ELSE "NONE",
                 !.notes = <<response>>]
     /\ UNCHANGED <<isAuthenticated, whitelist, nvs, challenges>>

\* onWrite(pChar) with receivedValue = v
OnWrite(v) ==
  /\ deviceConnected
  /\ LET remote == lastRemoteAddr
     IN IF lockoutInForce(lockoutUntil, remote, now)
        THEN WriteLockedOut(v)
        ELSE LET expired == lockoutExpired(lockoutUntil, remote, now)
                 lu1 == IF expired THEN eraseKey(lockoutUntil, remote)
                                   ELSE lockoutUntil
                 fa1 == IF expired THEN [failedAttempts EXCEPT ![remote] = 0]
                                   ELSE failedAttempts
                 gate == IF expired THEN "expired" ELSE "none"
             IN IF startsWith(v, RESP_PREFIX)
                THEN WriteResp(v, remote, fa1, lu1, gate)
                ELSE IF ~commandAllowed(bleAuthenticated, isAuthenticated)
                THEN WriteUnauthorized(v, remote, fa1, lu1, gate)
                ELSE WriteCommand(v, fa1, lu1, gate)
  /\ UNCHANGED <<deviceConnected, bleAuthenticated, currentConnId,
                 lastDisconnectReason, lastRemoteAddr, now, connPeer>>
  /\ UNCHANGED keyVars

---------------------------------------------------------------------------
(* loop() and the clock *)

\* the sweep at the end of loop(): erase every record with millis() > expiry
sweepLockouts(lu, t) == [x \in {k \in DOMAIN lu : ~(t > lu[k])} |-> lu[x]]

LoopSweep ==
  /\ lockoutUntil' = sweepLockouts(lockoutUntil, now)
  /\ UNCHANGED <<deviceConnected, isAuthenticated, bleAuthenticated,
                 currentConnId, lastDisconnectReason, isLocked, whitelist, nvs,
                 failedAttempts, challenges, lastRemoteAddr, now, connPeer,
                 ev>>
  /\ UNCHANGED keyVars

\* millis() advances
Tick ==
  /\ now < MaxTicks * TickMs
  /\ now' = now + TickMs
  /\ UNCHANGED <<deviceConnected, isAuthenticated, bleAuthenticated,
                 currentConnId, lastDisconnectReason, isLocked, whitelist, nvs,
                 failedAttempts, lockoutUntil, challenges, lastRemoteAddr,
                 connPeer, ev>>
  /\ UNCHANGED keyVars

---------------------------------------------------------------------------

Next ==
  \/ \E cid \in ConnIds : OnConnect(Key1, cid)
  \/ OnDisconnect
  \/ GapUpdateConnParams
  \/ \E success \in BOOLEAN : GapAuthCmpl(success)
  \/ \E pass_key \in PassKeys : OnConfirmPIN(pass_key)
  \/ \E success \in BOOLEAN : OnAuthenticationComplete(success)
  \/ \E v \in WriteValues : OnWrite(v)
  \/ LoopSweep
  \/ Tick

Spec == Init /\ [][Next]_vars

---------------------------------------------------------------------------
(* The whitelist and its store on their own: identities are added and      *)
(* removed in any order and the controller restarts in between             *)

\* the identities of the whitelist scenarios: MAC strings as macToString
\* writes them, two of them also in lower case
StoreIdents ==
  { macToString(<<170, 187, 204, 221, 238, b>>) : b \in {1, 2, 3, 4} }
  \cup { toLowerCase(macToString(<<170, 187, 204, 221, 238, b>>)) : b \in {1, 2} }

\* addToWhitelist(mac)
AddToWhitelist(mac) ==
  /\ whitelist' = addToWhitelist(whitelist, mac)
  /\ nvs' = nvsAfterAdd(nvs, whitelist, mac)
  /\ ev' = EvBase("add")
  /\ UNCHANGED <<deviceConnected, isAuthenticated, bleAuthenticated,
                 currentConnId, lastDisconnectReason, isLocked,
                 failedAttempts, lockoutUntil, challenges, lastRemoteAddr,
                 now, connPeer>>
  /\ UNCHANGED keyVars

\* removeFromWhitelist(mac)
RemoveFromWhitelist(mac) ==
  /\ whitelist' = removeFromWhitelist(whitelist, mac)
  /\ nvs' = nvsAfterRemove(nvs, whitelist, mac)
  /\ ev' = EvBase("remove")
  /\ UNCHANGED <<deviceConnected, isAuthenticated, bleAuthenticated,
                 currentConnId, lastDisconnectReason, isLocked,
                 failedAttempts, lockoutUntil, challenges, lastRemoteAddr,
                 now, connPeer>>
  /\ UNCHANGED keyVars

\* a restart with no device connected: setup() reloads the vector from the
\* store, the store itself survives
Restart ==
  /\ whitelist' = loadWhitelist(nvs)
  /\ ev' = EvBase("setup")
  /\ UNCHANGED <<deviceConnected, isAuthenticated, bleAuthenticated,
                 currentConnId, lastDisconnectReason, isLocked, nvs,
                 failedAttempts, lockoutUntil, challenges, lastRemoteAddr,
                 now, connPeer>>
  /\ UNCHANGED keyVars

NextStore ==
  \/ \E mac \in StoreIdents : AddToWhitelist(mac)
  \/ \E mac \in StoreIdents : RemoveFromWhitelist(mac)
  \/ Restart

SpecStore == Init /\ [][NextStore]_vars

---------------------------------------------------------------------------
(* The key, median variant (BLE_Secure_Client_v2.ino): proximity filter,   *)
(* auto-trigger, buttons, connection life cycle                            *)

RSSI_THRESHOLD == -93
RSSI_HISTORY_SIZE == 5
RSSI_UPDATE_INTERVAL == 1000
RSSI_CONFIRMATION_DELAY == 2000
CONNECTION_RETRY_DELAY_MS == 5000
MAX_RAPID_RETRIES == 3
LONG_SLEEP_DURATION_S == 60

\* the key's clock advances in steps of this many milliseconds
KeyTickMs == RSSI_UPDATE_INTERVAL
\* the key's clock is not allowed to grow past this many steps per start
MaxKeyTicks == 6

\* what getRssi() reads: one sample on each side of the threshold and one
\* outside the range addRSSI accepts
RawSamples == { RSSI_THRESHOLD - 1, RSSI_THRESHOLD + 1, -101 }

\* what getCommandFromInput() returns
ButtonCommands == { "LOCK", "UNLOCK", "TRUNK", "LOCATE", "RESET", "UNKNOWN" }

\* how the start that follows was woken
WakeUpSources == { "TIMER", "EXT0", "POWERON" }

\* the texts the controller notifies
Notifications ==
  { COMMAND_RESPONSES[k] : k \in DOMAIN COMMAND_RESPONSES }
  \cup { AUTH_OK, INVALID_COMMAND }

\* String::indexOf(sub) != -1
containsText(text, sub) ==
  \E i \in 1..(Len(text) - Len(sub) + 1) :
     SubSeq(text, i, i + Len(sub) - 1) = sub

TXT_Unlocked == <<"U","n","l","o","c","k","e","d">>
TXT_Locked == <<"L","o","c","k","e","d">>

\* addRSSI that drops the newest sample of a full window
addRSSIKeepOldest(history, rssi) ==
  IF rssi >= -100 /\ rssi <= 0 /\ Len(history) < RSSI_HISTORY_SIZE
  THEN Append(history, rssi)
  ELSE history

\* addRSSI: append a sample in [-100, 0], drop the oldest beyond the size
addRSSI(history, rssi) ==
  IF rssi >= -100 /\ rssi <= 0
  THEN LET grown == Append(history, rssi)
       IN IF Len(grown) > RSSI_HISTORY_SIZE THEN Tail(grown) ELSE grown
  ELSE history

\* a median that takes element (size - 1)/2 of the sorted copy
getMedianRSSILowerMiddle(history) ==
  IF history = <<>> THEN -127
  ELSE SortSeq(history, LAMBDA a, b : a < b)[((Len(history) - 1) \div 2) + 1]

\* getMedianRSSI: element size/2 of the sorted copy, -127 when empty
getMedianRSSI(history) ==
  IF history = <<>> THEN -127
  ELSE SortSeq(history, LAMBDA a, b : a < b)[(Len(history) \div 2) + 1]

shouldAutoUnlock(rssi, manual) == ~manual /\ rssi > RSSI_THRESHOLD

shouldAutoLock(rssi, status) == rssi < RSSI_THRESHOLD /\ status = "UNLOCKED"

\* the globals that sendCommand and the auto-trigger read and write, with
\* the commands written so far in this callback
KeySt ==
  [ connected |-> connected, pWrite |-> pWriteCharacteristic,
    lockStatus |-> lockStatus, isManualLock |-> isManualLock,
    lastRssiTriggerTime |-> lastRssiTriggerTime, out |-> <<>> ]

\* a sendCommand that updates lockStatus and isManualLock but writes nothing
sendCommandUnwritten(st, command, auto) ==
  IF ~st.connected \/ ~st.pWrite THEN st
  ELSE [st EXCEPT
          !.lockStatus = IF command = "LOCK" THEN "LOCKED"
                         ELSE IF command = "UNLOCK" THEN "UNLOCKED" ELSE @,
          !.isManualLock = IF command = "LOCK" THEN TRUE
                           ELSE IF command = "UNLOCK" THEN FALSE ELSE @]

\* sendCommand: nothing without a connection or a write characteristic;
\* LOCK and UNLOCK update lockStatus and isManualLock
sendCommand(st, command, auto) ==
  IF ~st.connected \/ ~st.pWrite THEN st
  ELSE [st EXCEPT
          !.out = Append(@, [cmd |-> command, auto |-> auto]),
          !.lockStatus = IF command = "LOCK" THEN "LOCKED"
                         ELSE IF command = "UNLOCK" THEN "UNLOCKED" ELSE @,
          !.isManualLock = IF command = "LOCK" THEN TRUE
                           ELSE IF command = "UNLOCK" THEN FALSE ELSE @]

\* handleDistanceChange
handleDistanceChange(st, rssi, currentTime) ==
  IF currentTime - st.lastRssiTriggerTime < RSSI_CONFIRMATION_DELAY THEN st
  ELSE IF shouldAutoUnlock(rssi, st.isManualLock)
          /\ st.lockStatus \in {"NONE", "LOCKED"}
  THEN [sendCommand(st, "UNLOCK", TRUE) EXCEPT
          !.lockStatus = "UNLOCKED", !.lastRssiTriggerTime = currentTime]
  ELSE IF shouldAutoLock(rssi, st.lockStatus)
  THEN [sendCommand(st, "LOCK", TRUE) EXCEPT
          !.lockStatus = "LOCKED", !.lastRssiTriggerTime = currentTime]
  ELSE st

\* checkAutoLockUnlock; the link is up whenever it is called
checkAutoLockUnlock(st, history, currentTime) ==
  IF ~st.connected THEN st
  ELSE handleDistanceChange(st, getMedianRSSI(history), currentTime)

\* the last command an auto-trigger wrote, after a callback that wrote out
autoWriteAfter(out) ==
  LET autos == SelectSeq(out, LAMBDA w : w.auto)
  IN IF autos = <<>> THEN lastAutoWrite
     ELSE [cmd |-> autos[Len(autos)].cmd, at |-> keyNow]

\* the globals a callback leaves behind, from its record st
KeyStStored(st) ==
  /\ lockStatus' = st.lockStatus
  /\ isManualLock' = st.isManualLock
  /\ lastRssiTriggerTime' = st.lastRssiTriggerTime
  /\ lastAutoWrite' = autoWriteAfter(st.out)

\* esp_deep_sleep_start() and esp_restart(): the next thing that runs is
\* setup() on fresh globals
KeyStarted(kind, seconds) ==
  /\ connected' = FALSE
  /\ rssiHistory' = <<>>
  /\ rssiBuffer' = <<>>
  /\ lockStatus' = "NONE"
  /\ connectionRetries' = 0
  /\ lastRssiCheckTime' = 0
  /\ lastRssiTriggerTime' = 0
  /\ isManualLock' = FALSE
  /\ pWriteCharacteristic' = FALSE
  /\ keyPc' = "setup"
  /\ keyNow' = 0
  /\ lastAutoWrite' = [cmd |-> "NONE", at |-> 0]
  /\ kev' = [KevBase(kind) EXCEPT !.sleep = seconds]

\* setup(): connectToServer() fails to connect, counts the attempt and the
\* key sleeps: the long sleep after MAX_RAPID_RETRIES attempts when the
\* timer woke it, the short one otherwise
ConnectFailed(wakeUpSource) ==
  /\ keyPc = "setup"
  /\ LET retries == connectionRetries + 1
     IN KeyStarted("connect_fail",
                   IF wakeUpSource = "TIMER" /\ retries >= MAX_RAPID_RETRIES
                   THEN LONG_SLEEP_DURATION_S
                   ELSE CONNECTION_RETRY_DELAY_MS \div 1000)
  /\ UNCHANGED ctlVars

\* MyClientCallback::onConnect, called while connectToServer() waits
KeyOnConnect ==
  /\ keyPc = "setup"
  /\ connected' = TRUE
  /\ connectionRetries' = 0
  /\ keyPc' = "connecting"
  /\ kev' = KevBase("connect")
  /\ UNCHANGED <<ctlVars, rssiHistory, rssiBuffer, lockStatus,
                 lastRssiCheckTime, lastRssiTriggerTime, isManualLock,
                 pWriteCharacteristic, keyNow, lastAutoWrite>>

\* connectToServer() after the connection is up: service and characteristic
\* discovery, the first sample and the first auto-trigger check; when the
\* discovery fails the key sleeps
ConnectToServer(found, rawRSSI) ==
  /\ keyPc = "connecting"
  /\ IF ~found
     THEN KeyStarted("discovery_fail", CONNECTION_RETRY_DELAY_MS \div 1000)
     ELSE LET history == addRSSI(rssiHistory, rawRSSI)
              st == checkAutoLockUnlock(
                      [KeySt EXCEPT !.connected = TRUE, !.pWrite = TRUE],
                      history, keyNow)
          IN /\ connected' = TRUE
             /\ connectionRetries' = 0
             /\ pWriteCharacteristic' = TRUE
             /\ rssiHistory' = history
             /\ KeyStStored(st)
             /\ keyPc' = "loop"
             /\ kev' = [KevBase("discovered") EXCEPT
                          !.out = st.out,
                          !.metric = <<getMedianRSSI(history)>>]
             /\ UNCHANGED <<lastRssiCheckTime, keyNow, rssiBuffer>>
  /\ UNCHANGED ctlVars

\* ClientSecurityCallbacks::onAuthenticationComplete
KeyOnAuthenticationComplete(success) ==
  /\ keyPc \in {"connecting", "loop"}
  /\ LET rssi == getMedianRSSI(rssiHistory)
         st == IF success /\ connected
                  /\ shouldAutoUnlock(rssi, isManualLock)
                  /\ lockStatus \in {"NONE", "LOCKED"}
               THEN [sendCommand(KeySt, "UNLOCK", TRUE) EXCEPT
                       !.lockStatus = "UNLOCKED"]
               ELSE KeySt
     IN /\ KeyStStored(st)
        /\ kev' = [KevBase(IF success THEN "auth_ok" ELSE "auth_fail") EXCEPT
                     !.out = st.out,
                     !.metric = IF success /\ connected
                                THEN <<rssi>> ELSE <<>>]
  /\ UNCHANGED <<ctlVars, connected, rssiHistory, rssiBuffer,
                 connectionRetries, lastRssiCheckTime, pWriteCharacteristic,
                 keyPc, keyNow>>

\* notifyCallback: lockStatus follows the controller's acknowledgement
NotifyCallback(response) ==
  /\ keyPc = "loop"
  /\ IF containsText(response, TXT_Unlocked)
     THEN lockStatus' = "UNLOCKED" /\ isManualLock' = FALSE
     ELSE IF containsText(response, TXT_Locked)
     THEN lockStatus' = "LOCKED" /\ UNCHANGED isManualLock
     ELSE UNCHANGED <<lockStatus, isManualLock>>
  /\ kev' = KevBase("notify")
  /\ UNCHANGED <<ctlVars, connected, rssiHistory, rssiBuffer,
                 connectionRetries, lastRssiCheckTime, lastRssiTriggerTime,
                 pWriteCharacteristic, keyPc, keyNow, lastAutoWrite>>

\* one pass of loop(): the button, then the periodic sample and check
KeyLoop(cmd, rawRSSI) ==
  /\ keyPc = "loop"
  /\ IF ~connected \/ cmd = "RESET"
     THEN KeyStarted("restart", 0)
     ELSE LET st1 == IF cmd = "UNKNOWN" THEN KeySt
                     ELSE sendCommand(KeySt, cmd, FALSE)
              due == keyNow - lastRssiCheckTime > RSSI_UPDATE_INTERVAL
              history == IF due THEN addRSSI(rssiHistory, rawRSSI)
                         ELSE rssiHistory
              st2 == IF due THEN checkAutoLockUnlock(st1, history, keyNow)
                     ELSE st1
          IN /\ lastRssiCheckTime' = IF due THEN keyNow ELSE lastRssiCheckTime
             /\ rssiHistory' = history
             /\ KeyStStored(st2)
             /\ kev' = [KevBase("loop") EXCEPT
                          !.out = st2.out,
                          !.metric = IF due THEN <<getMedianRSSI(history)>>
                                     ELSE <<>>]
             /\ UNCHANGED <<connected, connectionRetries, rssiBuffer,
                            pWriteCharacteristic, keyPc, keyNow>>
  /\ UNCHANGED ctlVars

\* MyClientCallback::onDisconnect: the key sleeps
KeyOnDisconnect ==
  /\ keyPc \in {"connecting", "loop"}
  /\ KeyStarted("disconnect",
                IF connectionRetries < MAX_RAPID_RETRIES
                THEN CONNECTION_RETRY_DELAY_MS \div 1000
                ELSE LONG_SLEEP_DURATION_S)
  /\ UNCHANGED ctlVars

\* millis() of the key advances
KeyTick ==
  /\ keyPc \in {"connecting", "loop"}
  /\ keyNow < MaxKeyTicks * KeyTickMs
  /\ keyNow' = keyNow + KeyTickMs
  /\ UNCHANGED <<ctlVars, connected, rssiHistory, rssiBuffer, lockStatus,
                 connectionRetries, lastRssiCheckTime, lastRssiTriggerTime,
                 isManualLock, pWriteCharacteristic, keyPc, lastAutoWrite,
                 kev>>

NextKey ==
  \/ \E wakeUpSource \in WakeUpSources : ConnectFailed(wakeUpSource)
  \/ KeyOnConnect
  \/ \E found \in BOOLEAN, rawRSSI \in RawSamples :
       ConnectToServer(found, rawRSSI)
  \/ \E success \in BOOLEAN : KeyOnAuthenticationComplete(success)
  \/ \E response \in Notifications : NotifyCallback(response)
  \/ \E cmd \in ButtonCommands, rawRSSI \in RawSamples : KeyLoop(cmd, rawRSSI)
  \/ KeyOnDisconnect
  \/ KeyTick

SpecKey == Init /\ [][NextKey]_vars

---------------------------------------------------------------------------
(* The key, averaging variant (part_002): two thresholds, the mean of the  *)
(* buffer as the smoothed signal, no confirmation delay, no manual flag.   *)
(* Its connection callbacks and its clock are those of the median variant  *)
(* word for word; pWriteCharacteristic stands for pCharacteristic_2        *)

RSSI_THRESHOLD_UNLOCK == -85
RSSI_THRESHOLD_LOCK == -86
RSSI_AVERAGE_WINDOW == 5
\* RSSI_UPDATE_INTERVAL of this variant
AVG_RSSI_UPDATE_INTERVAL == 2000
\* the largest value of a 32-bit int
INT_MAX == 2147483647

\* what getRssi() reads in this variant: far, the two values inside the
\* band between the thresholds, and near
AvgRawSamples == { -95, RSSI_THRESHOLD_UNLOCK - 1, RSSI_THRESHOLD_LOCK + 1, -80 }

\* what getCommandFromInput() returns in this variant
AvgButtonCommands == ButtonCommands \cup { "ELIGHT" }

\* addRSSI of this variant
addRSSIAvg(buffer, rssi) ==
  IF rssi >= -100 /\ rssi <= 0
  THEN LET grown == Append(buffer, rssi)
       IN IF Len(grown) > RSSI_AVERAGE_WINDOW THEN Tail(grown) ELSE grown
  ELSE buffer

\* std::accumulate(begin, end, 0)
RECURSIVE accumulate(_)
accumulate(buffer) ==
  IF buffer = <<>> THEN 0 ELSE buffer[1] + accumulate(Tail(buffer))

\* (unsigned)sum / n converted back to int, for a negative int sum and a
\* 32-bit size_t n: (2^32 + sum) / n, with 2^32 written as 2 * INT_MAX + 2
\* so that no intermediate value leaves the 32-bit signed range; for n = 1
\* the quotient 2^32 + sum converts back to sum
unsignedQuotient(sum, n) ==
  IF n = 1 THEN sum
  ELSE 2 * (INT_MAX \div n) + ((2 * (INT_MAX % n) + 2 + sum) \div n)

\* getAverageRSSI: sum / rssiBuffer.size(), an int divided by a size_t, so
\* the division is unsigned; -127 when empty
getAverageRSSI(buffer) ==
  IF buffer = <<>> THEN -127
  ELSE LET sum == accumulate(buffer)
       IN IF sum >= 0 THEN sum \div Len(buffer)
          ELSE unsignedQuotient(sum, Len(buffer))

\* sendCommand of this variant: no manual flag
sendCommandAvg(st, command, auto) ==
  IF ~st.connected \/ ~st.pWrite THEN st
  ELSE [st EXCEPT
          !.out = Append(@, [cmd |-> command, auto |-> auto]),
          !.lockStatus = IF command = "LOCK" THEN "LOCKED"
                         ELSE IF command = "UNLOCK" THEN "UNLOCKED" ELSE @]

\* checkAutoLockUnlock of this variant
checkAutoLockUnlockAvg(st, buffer) ==
  LET currentRSSI == getAverageRSSI(buffer)
  IN IF ~st.connected THEN st
     ELSE IF currentRSSI > RSSI_THRESHOLD_UNLOCK
             /\ st.lockStatus \in {"NONE", "LOCKED"}
     THEN [sendCommandAvg(st, "UNLOCK", TRUE) EXCEPT !.lockStatus = "UNLOCKED"]
     ELSE IF currentRSSI < RSSI_THRESHOLD_LOCK /\ st.lockStatus = "UNLOCKED"
     THEN [sendCommandAvg(st, "LOCK", TRUE) EXCEPT !.lockStatus = "LOCKED"]
     ELSE st

\* connectToServer() of this variant after the connection is up
AvgConnectToServer(found, rawRSSI) ==
  /\ keyPc = "connecting"
  /\ IF ~found
     THEN KeyStarted("discovery_fail", CONNECTION_RETRY_DELAY_MS \div 1000)
     ELSE LET buffer == addRSSIAvg(rssiBuffer, rawRSSI)
              st == checkAutoLockUnlockAvg(
                      [KeySt EXCEPT !.connected = TRUE, !.pWrite = TRUE],
                      buffer)
          IN /\ connected' = TRUE
             /\ connectionRetries' = 0
             /\ pWriteCharacteristic' = TRUE
             /\ rssiBuffer' = buffer
             /\ KeyStStored(st)
             /\ keyPc' = "loop"
             /\ kev' = [KevBase("discovered") EXCEPT
                          !.out = st.out,
                          !.metric = <<getAverageRSSI(buffer)>>]
             /\ UNCHANGED <<lastRssiCheckTime, keyNow, rssiHistory>>
  /\ UNCHANGED ctlVars

\* ClientSecurityCallbacks::onAuthenticationComplete of this variant
AvgOnAuthenticationComplete(success) ==
  /\ keyPc \in {"connecting", "loop"}
  /\ LET rssi == getAverageRSSI(rssiBuffer)
         st == IF success /\ connected
                  /\ rssi > RSSI_THRESHOLD_UNLOCK
                  /\ lockStatus \in {"NONE", "LOCKED"}
               THEN [sendCommandAvg(KeySt, "UNLOCK", TRUE) EXCEPT
                       !.lockStatus = "UNLOCKED"]
               ELSE KeySt
     IN /\ KeyStStored(st)
        /\ kev' = [KevBase(IF success THEN "auth_ok" ELSE "auth_fail") EXCEPT
                     !.out = st.out,
                     !.metric = IF success /\ connected
                                THEN <<rssi>> ELSE <<>>]
  /\ UNCHANGED <<ctlVars, connected, rssiHistory, rssiBuffer,
                 connectionRetries, lastRssiCheckTime, pWriteCharacteristic,
                 keyPc, keyNow>>

\* notifyCallback of this variant: the text is printed, nothing else
AvgNotifyCallback(response) ==
  /\ keyPc = "loop"
  /\ kev' = KevBase("notify")
  /\ UNCHANGED <<ctlVars, connected, rssiHistory, rssiBuffer, lockStatus,
                 connectionRetries, lastRssiCheckTime, lastRssiTriggerTime,
                 isManualLock, pWriteCharacteristic, keyPc, keyNow,
                 lastAutoWrite>>

\* one pass of loop() of this variant
AvgLoop(cmd, rawRSSI) ==
  /\ keyPc = "loop"
  /\ IF ~connected \/ cmd = "RESET"
     THEN KeyStarted("restart", 0)
     ELSE LET st1 == IF cmd = "UNKNOWN" THEN KeySt
                     ELSE sendCommandAvg(KeySt, cmd, FALSE)
              due == keyNow - lastRssiCheckTime > AVG_RSSI_UPDATE_INTERVAL
              buffer == IF due THEN addRSSIAvg(rssiBuffer, rawRSSI)
                        ELSE rssiBuffer
              st2 == IF due THEN checkAutoLockUnlockAvg(st1, buffer) ELSE st1
          IN /\ lastRssiCheckTime' = IF due THEN keyNow ELSE lastRssiCheckTime
             /\ rssiBuffer' = buffer
             /\ KeyStStored(st2)
             /\ kev' = [KevBase("loop") EXCEPT
                          !.out = st2.out,
                          !.metric = IF due THEN <<getAverageRSSI(buffer)>>
                                     ELSE <<>>]
             /\ UNCHANGED <<connected, connectionRetries, rssiHistory,
                            pWriteCharacteristic, keyPc, keyNow>>
  /\ UNCHANGED ctlVars

NextAvgKey ==
  \/ \E wakeUpSource \in WakeUpSources : ConnectFailed(wakeUpSource)
  \/ KeyOnConnect
  \/ \E found \in BOOLEAN, rawRSSI \in AvgRawSamples :
       AvgConnectToServer(found, rawRSSI)
  \/ \E success \in BOOLEAN : AvgOnAuthenticationComplete(success)
  \/ \E response \in Notifications : AvgNotifyCallback(response)
  \/ \E cmd \in AvgButtonCommands, rawRSSI \in AvgRawSamples :
       AvgLoop(cmd, rawRSSI)
  \/ KeyOnDisconnect
  \/ KeyTick

SpecAvgKey == Init /\ [][NextAvgKey]_vars

---------------------------------------------------------------------------
(* Properties *)

\* the hex of HMAC-SHA256(APP_SECRET, nonce) for every nonce, written out
\* from the primitives
DigestTable == [n \in Nonces |-> toHex(compute_hmac_sha256(APP_SECRET, n))]

\* the digest a response must carry for the nonce stored for addr
DigestOf(addr) == DigestTable[challenges[addr]]

\* the written texts that onWrite takes for challenge responses
RespValues == {v \in WriteValues : startsWith(v, RESP_PREFIX)}

\* the written texts that onWrite takes for commands
CmdValues == WriteValues \ RespValues

\* the hex text of every challenge response, in upper case
UpperHexOf == [v \in RespValues |-> toUpperCase(substring(v, 5))]

\* a step of onWrite that handles a "RESP:" text
RespStep ==
  /\ ev'.kind = "resp"
  /\ \E v \in RespValues : OnWrite(v)

\* a step of onWrite that handles any other text
CmdStep ==
  /\ ev'.kind = "cmd"
  /\ \E v \in CmdValues : OnWrite(v)

\* a step of one of the two authentication-complete callbacks
LinkAuthStep(success) ==
  /\ ev'.kind = IF success THEN "link_ok" ELSE "link_fail"
  /\ GapAuthCmpl(success) \/ OnAuthenticationComplete(success)

\* C1: in every reachable state the application-layer flag isAuthenticated
\* is set only while the link-layer flag bleAuthenticated is set (no response
\* handled before the connection's own link authentication authenticates it)
C1_AppAuthImpliesLinkAuth == isAuthenticated => bleAuthenticated

C3_UnauthenticatedCommandRejectedNotQueued ==
  [][ /\ (CmdStep /\ ~(bleAuthenticated /\ isAuthenticated)) =>
           /\ ev'.act = "NONE"
           /\ \/ ev'.notes = <<>>
              \/ /\ lastRemoteAddr \in DOMAIN challenges
                 /\ ev'.notes = <<CHALLENGE_PREFIX \o toHex(challenges[lastRemoteAddr])>>
           /\ UNCHANGED <<isLocked, isAuthenticated, bleAuthenticated,
                          challenges, whitelist, nvs, deviceConnected,
                          currentConnId, lastDisconnectReason, lastRemoteAddr>>
           /\ \A a \in Addrs : failedAttempts'[a] <= failedAttempts[a]
           /\ DOMAIN lockoutUntil' \subseteq DOMAIN lockoutUntil
      /\ (isLocked' # isLocked \/ (ev' # ev /\ ev'.act # "NONE")) =>
           \/ /\ OnDisconnect
              /\ ev'.act = "LOCK"
           \/ /\ bleAuthenticated /\ isAuthenticated
              /\ \E v \in CmdValues :
                   /\ OnWrite(v)
                   /\ ev'.act = parseCommand(v)
    ]_vars

\* C3 witness: a command was written on a link-authenticated connection that
\* is not application-authenticated; the reply was the pending challenge
C3_CommandBeforeAppAuth ==
  /\ ev.kind = "cmd"
  /\ bleAuthenticated
  /\ ~isAuthenticated
  /\ ev.act = "NONE"
  /\ ev.notes # <<>>

\* C4: while the lockout of a peer is in force, no authentication-complete
\* callback issues a challenge to it and no step makes its connection
\* application-authenticated
C4_NoChallengeNoAuthWhileLockedOut ==
  [][ (/\ lastRemoteAddr' \in DOMAIN lockoutUntil
       /\ now < lockoutUntil[lastRemoteAddr']) =>
        /\ ~LinkAuthStep(TRUE)
        /\ ~(~isAuthenticated /\ isAuthenticated')
    ]_vars

\* C5: (a) a RESP handled while the lockout of the peer is in force is
\* ignored whatever digest it carries; (b) every rejected RESP of a peer not
\* in lockout is counted, and the one that brings the count to 5 or more
\* sets the lockout to now + LOCKOUT_DURATION_MS; (c) a RESP with the right
\* digest for the pending challenge, handled when no lockout is in force any
\* more (expired or swept), is accepted: AUTH_OK, isAuthenticated, and the
\* expired record and its count are gone
C5_LockoutRoundTrip ==
  [][ RespStep =>
          LET a == lastRemoteAddr
              v == ev'.resp
              inForce == a \in DOMAIN lockoutUntil /\ now < lockoutUntil[a]
              expired == a \in DOMAIN lockoutUntil /\ now >= lockoutUntil[a]
              base == IF expired THEN 0 ELSE failedAttempts[a]
              right == /\ a \in DOMAIN challenges
                       /\ UpperHexOf[v] = DigestOf(a)
          IN /\ inForce =>
                  /\ ev'.notes = <<>>
                  /\ UNCHANGED <<isAuthenticated, failedAttempts, lockoutUntil,
                                 challenges, whitelist, isLocked>>
             /\ (~inForce /\ ~right) =>
                  /\ failedAttempts'[a] = base + 1
                  /\ isAuthenticated' = isAuthenticated
                  /\ IF base + 1 >= 5
                     THEN /\ a \in DOMAIN lockoutUntil'
                          /\ lockoutUntil'[a] = now + 300000
                     ELSE a \notin DOMAIN lockoutUntil'
             /\ (~inForce /\ right) =>
                  /\ isAuthenticated'
                  /\ ev'.notes = <<AUTH_OK>>
                  /\ a \notin DOMAIN lockoutUntil'
                  /\ failedAttempts'[a] = base
    ]_vars

\* C5 witness: the RESP handled last found an expired lockout and was
\* accepted
C5_AcceptedAfterExpiry ==
  /\ ev.kind = "resp"
  /\ ev.gate = "expired"
  /\ ev.notes = <<AUTH_OK>>
  /\ isAuthenticated

\* C6: every step that counts a failure raises the count of the peer by
\* exactly one, and when the new count is 5 or more the lockout of the peer
\* is now + LOCKOUT_DURATION_MS and the callback asked the server to
\* disconnect the link
C6_FailureCountedLockedOutDisconnected ==
  [][ \A a \in Addrs :
        failedAttempts'[a] > failedAttempts[a] =>
          /\ failedAttempts'[a] = failedAttempts[a] + 1
          /\ failedAttempts'[a] >= 5 =>
               /\ a \in DOMAIN lockoutUntil'
               /\ lockoutUntil'[a] = now + 300000
               /\ ev'.disc
    ]_vars

\* C7: after a successful link authentication and after an accepted
\* challenge response (AUTH_OK) the failure count of the peer is 0
C7_CounterZeroAfterSuccess ==
  (ev.kind = "link_ok" \/ (ev.kind = "resp" /\ ev.notes = <<AUTH_OK>>)) =>
    failedAttempts[lastRemoteAddr] = 0

\* C8: while the lockout of the peer is in force, a PIN confirmation, an
\* authentication-complete event and the handling of a RESP leave the
\* failure counts, the lockout records, the challenge table, the whitelist
\* and both authentication flags unchanged
C8_LockoutGateBeforeEveryAuthStep ==
  [][ (/\ \/ \E pass_key \in PassKeys : OnConfirmPIN(pass_key)
          \/ \E success \in BOOLEAN : LinkAuthStep(success)
          \/ RespStep
       /\ lastRemoteAddr' \in DOMAIN lockoutUntil
       /\ now < lockoutUntil[lastRemoteAddr']) =>
        UNCHANGED <<failedAttempts, lockoutUntil, challenges, whitelist,
                    isAuthenticated, bleAuthenticated>>
    ]_vars

\* C9: a step that handles a RESP with the right digest for the pending
\* challenge of a peer not in lockout deletes the challenge, sets
\* isAuthenticated, leaves the peer in the whitelist and sends AUTH_OK once
C9_MatchingResponseAdmitsPeer ==
  [][ (/\ RespStep
       /\ ~(lastRemoteAddr \in DOMAIN lockoutUntil
            /\ now < lockoutUntil[lastRemoteAddr])
       /\ lastRemoteAddr \in DOMAIN challenges
       /\ UpperHexOf[ev'.resp] = DigestOf(lastRemoteAddr)) =>
          /\ lastRemoteAddr \notin DOMAIN challenges'
          /\ isAuthenticated'
          /\ \E i \in 1..Len(whitelist') : whitelist'[i] = lastRemoteAddr
          /\ ev'.notes = <<AUTH_OK>>
    ]_vars

\* C10: a step that handles a RESP with a wrong digest for the pending
\* challenge of a peer not in lockout deletes the challenge, counts one
\* failure, sends AUTH_FAIL and leaves isAuthenticated as it was
C10_MismatchConsumesChallenge ==
  [][ (/\ RespStep
       /\ ~(lastRemoteAddr \in DOMAIN lockoutUntil
            /\ now < lockoutUntil[lastRemoteAddr])
       /\ lastRemoteAddr \in DOMAIN challenges
       /\ UpperHexOf[ev'.resp] # DigestOf(lastRemoteAddr)) =>
          /\ lastRemoteAddr \notin DOMAIN challenges'
          /\ failedAttempts'[lastRemoteAddr] >= 1
          /\ ev'.notes = <<AUTH_FAIL>>
          /\ isAuthenticated' = isAuthenticated
    ]_vars


\* C11 (as amended): a RESP from a peer that is not in lockout and has no
\* stored challenge adds one to the failure count of that peer (from 0 after
\* a lazy expiry), sets the lockout when the count reaches 5, and changes
\* nothing else: both flags, the challenge table, the whitelist, the stored
\* csv, isLocked and the counts of the other peers stay, no pin is driven
C11_NoChallengeCountsOneFailureOnly ==
  [][ (/\ RespStep
       /\ ~(lastRemoteAddr \in DOMAIN lockoutUntil
            /\ now < lockoutUntil[lastRemoteAddr])
       /\ lastRemoteAddr \notin DOMAIN challenges) =>
        LET a == lastRemoteAddr
            expired == a \in DOMAIN lockoutUntil /\ now >= lockoutUntil[a]
            base == IF expired THEN 0 ELSE failedAttempts[a]
        IN /\ failedAttempts'[a] = base + 1
           /\ \A b \in Addrs \ {a} : failedAttempts'[b] = failedAttempts[b]
           /\ IF base + 1 >= 5
              THEN /\ a \in DOMAIN lockoutUntil'
                   /\ lockoutUntil'[a] = now + 300000
              ELSE a \notin DOMAIN lockoutUntil'
           /\ ev'.act = "NONE"
           /\ UNCHANGED <<isAuthenticated, bleAuthenticated, challenges,
                          whitelist, nvs, isLocked>>
    ]_vars

\* C11 witness: a RESP without a stored challenge was counted as the fifth
\* failure and set the lockout
C11_NoChallengeReachedThreshold ==
  /\ ev.kind = "resp"
  /\ ev.resp # <<>>
  /\ ev.notes = <<>>
  /\ failedAttempts[lastRemoteAddr] = 5
  /\ lastRemoteAddr \in DOMAIN lockoutUntil

\* C11 (as claimed): every RESP from a peer with no stored challenge adds
\* one to the failure count of that peer
C11_NoChallengeAlwaysCounted ==
  [][ (RespStep /\ lastRemoteAddr \notin DOMAIN challenges) =>
        failedAttempts'[lastRemoteAddr] > failedAttempts[lastRemoteAddr]
        \/ (lastRemoteAddr \in DOMAIN lockoutUntil
            /\ now >= lockoutUntil[lastRemoteAddr]
            /\ failedAttempts'[lastRemoteAddr] = 1)
    ]_vars

\* C12: every RESP of a peer not in lockout that is not accepted - wrong
\* digest or no stored challenge - is counted in the failure count and
\* answered with AUTH_FAIL
C12_EveryAppFailureCountedAndSurfaced ==
  [][ (/\ RespStep
       /\ ~(lastRemoteAddr \in DOMAIN lockoutUntil
            /\ now < lockoutUntil[lastRemoteAddr])
       /\ ~(/\ lastRemoteAddr \in DOMAIN challenges
            /\ UpperHexOf[ev'.resp] = DigestOf(lastRemoteAddr))) =>
        /\ failedAttempts'[lastRemoteAddr] >= 1
        /\ ev'.notes = <<AUTH_FAIL>>
    ]_vars


\* the text "CHALLENGE:" + hex for every nonce, written out from the
\* primitives
ChallengeTextOf == [n \in Nonces |-> CHALLENGE_PREFIX \o toHex(n)]

\* C13: every successful authentication-complete callback stores, under the
\* address of the event, a 16-byte nonce drawn from the random source in
\* that call and sends it as CHALLENGE:<hex>, whether or not the peer is in
\* the whitelist; and isAuthenticated becomes true only by a RESP with the
\* right digest for the stored nonce, for whitelisted peers too
C13_ChallengeForEveryLinkAuth ==
  [][ /\ LinkAuthStep(TRUE) =>
           LET a == lastRemoteAddr'
           IN /\ a = macToString(connPeer)
              /\ a \in DOMAIN challenges'
              /\ Len(challenges'[a]) = 16
              /\ challenges'[a] \in generateNonce(16)
              /\ ev'.notes = <<ChallengeTextOf[challenges'[a]]>>
      /\ (~isAuthenticated /\ isAuthenticated') =>
           /\ RespStep
           /\ lastRemoteAddr \in DOMAIN challenges
           /\ UpperHexOf[ev'.resp] = DigestOf(lastRemoteAddr)
    ]_vars

\* C13 witness: a link authentication of a peer that is already in the
\* whitelist just stored and sent a challenge; the connection is not
\* application-authenticated
C13_WhitelistedPeerChallenged ==
  /\ ev.kind = "link_ok"
  /\ \E i \in 1..Len(whitelist) : whitelist[i] = lastRemoteAddr
  /\ lastRemoteAddr \in DOMAIN challenges
  /\ ev.notes = <<ChallengeTextOf[challenges[lastRemoteAddr]]>>
  /\ ~isAuthenticated


\* C14: a command written on a connection that is link-authenticated, not
\* application-authenticated and has a stored challenge drives no pin, gets
\* no acknowledgement, is answered by CHALLENGE:<hex> of the stored nonce,
\* which stays stored, and raises no failure count
C14_CommandBeforeAppAuthResendsChallenge ==
  [][ (/\ CmdStep
       /\ bleAuthenticated
       /\ ~isAuthenticated
       /\ lastRemoteAddr \in DOMAIN challenges) =>
        /\ ev'.act = "NONE"
        /\ isLocked' = isLocked
        /\ ev'.notes = <<ChallengeTextOf[challenges[lastRemoteAddr]]>>
        /\ challenges' = challenges
        /\ \A b \in Addrs : failedAttempts'[b] <= failedAttempts[b]
    ]_vars

\* C15: while no device is connected the controller holds no
\* per-connection state: neither flag is set and no challenge is stored
C15_DisconnectDiscardsConnectionState ==
  ~deviceConnected =>
    /\ ~isAuthenticated
    /\ ~bleAuthenticated
    /\ DOMAIN challenges = {}

\* C16: onConnect and onDisconnect leave the failure counts, the lockout
\* records, the whitelist and its stored csv unchanged
C16_ConnectDisconnectKeepPeerState ==
  [][ (\/ OnDisconnect
       \/ \E p \in Peers, cid \in ConnIds : OnConnect(p, cid)) =>
        UNCHANGED <<failedAttempts, lockoutUntil, whitelist, nvs>>
    ]_vars

\* C16 witness: a peer with five counted failures and a lockout in force
\* has just connected again
C16_ReconnectedWithLockoutInForce ==
  /\ ev.kind = "connect"
  /\ lastRemoteAddr # <<>>
  /\ failedAttempts[lastRemoteAddr] >= 5
  /\ lastRemoteAddr \in DOMAIN lockoutUntil
  /\ now < lockoutUntil[lastRemoteAddr]


\* C17: in every step the whitelist keeps every entry it had, in place, and
\* never holds two entries that are equal when case is ignored
C17_WhitelistMonotonicNoDuplicates ==
  [][ /\ Len(whitelist') >= Len(whitelist)
      /\ \A i \in 1..Len(whitelist) : whitelist'[i] = whitelist[i]
      /\ \A i, j \in 1..Len(whitelist') :
           i # j => toUpperCase(whitelist'[i]) # toUpperCase(whitelist'[j])
    ]_vars

\* C17 witness: the response of a peer that was already in the whitelist was
\* accepted on a link-authenticated connection, and the whitelist holds the
\* peer exactly once
C17_WhitelistedPeerAuthenticatedAgain ==
  /\ ev.kind = "resp"
  /\ ev.notes = <<AUTH_OK>>
  /\ ev.wl = "present"
  /\ whitelist = <<lastRemoteAddr>>

\* C18: the whitelist and its stored csv change only in a step that handles
\* a RESP with the right digest for the stored challenge of a peer not in
\* lockout, the step that sends AUTH_OK
C18_WhitelistChangedOnlyByVerification ==
  [][ (whitelist' # whitelist \/ nvs' # nvs) =>
        /\ RespStep
        /\ ~(lastRemoteAddr \in DOMAIN lockoutUntil
             /\ now < lockoutUntil[lastRemoteAddr])
        /\ lastRemoteAddr \in DOMAIN challenges
        /\ UpperHexOf[ev'.resp] = DigestOf(lastRemoteAddr)
        /\ ev'.notes = <<AUTH_OK>>
        /\ whitelist' = Append(whitelist, lastRemoteAddr)
    ]_vars

\* C18 witness: an accepted response admitted the peer; the vector and the
\* stored csv hold its address
C18_PeerAdmittedAndStored ==
  /\ ev.kind = "resp"
  /\ ev.notes = <<AUTH_OK>>
  /\ lastRemoteAddr # <<>>
  /\ whitelist = <<lastRemoteAddr>>
  /\ nvs = lastRemoteAddr


\* the entries of a whitelist joined by commas, written out on its own
RECURSIVE CsvOf(_)
CsvOf(wl) ==
  IF Len(wl) = 0 THEN <<>>
  ELSE IF Len(wl) = 1 THEN wl[1]
  ELSE CsvOf(SubSeq(wl, 1, Len(wl) - 1)) \o <<",">> \o wl[Len(wl)]

\* C19: after every add, remove and restart the stored csv is the
\* comma-joined in-memory whitelist, and loading it back (what setup() does
\* at the next start) yields the same identities in the same order; a
\* restart leaves the whitelist as it was
C19_StoredWhitelistRoundTrips ==
  [][ /\ nvs' = CsvOf(whitelist')
      /\ loadWhitelist(nvs') = whitelist'
      /\ Restart => whitelist' = whitelist
    ]_vars

\* C19 witness: after a restart the whitelist holds three identities, one
\* of them in lower case, and the store holds their csv
C19_ThreeIdentitiesReloaded ==
  /\ ev.kind = "setup"
  /\ Len(whitelist) = 3
  /\ \E i \in 1..3 : whitelist[i] # toUpperCase(whitelist[i])
  /\ nvs = CsvOf(whitelist)


\* the written texts that are neither a "RESP:" text nor a command keyword
UnknownValues == CmdValues \ DOMAIN COMMAND_RESPONSES

\* C20: on a connection that is authenticated at both layers, a write whose
\* text is neither a "RESP:" text nor one of the five command keywords is
\* answered with INVALID_COMMAND, drives no pin and leaves isLocked as it was
C20_UnknownTextAnsweredInvalidCommand ==
  [][ ( /\ ev'.kind = "cmd"
        /\ deviceConnected /\ bleAuthenticated /\ isAuthenticated
        /\ \E v \in UnknownValues : OnWrite(v) )
      => /\ ev'.notes = <<INVALID_COMMAND>>
         /\ ev'.act = "NONE"
         /\ isLocked' = isLocked
    ]_vars

\* the keyword "LOCK" written in lower case
TXT_lock == toLowerCase(TXT_LOCK)

\* C21: on a connection that is authenticated at both layers and not locked
\* out, the keyword LOCK written in lower case drives the lock pin, sets
\* isLocked and is acknowledged with "Door Locked", as its upper-case form is
C21_LowerCaseKeywordActsAsUpperCase ==
  [][ ( /\ ev'.kind = "cmd"
        /\ deviceConnected /\ bleAuthenticated /\ isAuthenticated
        /\ ~(lastRemoteAddr \in DOMAIN lockoutUntil
             /\ now < lockoutUntil[lastRemoteAddr])
        /\ OnWrite(TXT_lock) )
      => /\ ev'.act = "LOCK"
         /\ isLocked'
         /\ ev'.notes = <<COMMAND_RESPONSES[TXT_LOCK]>>
    ]_vars

\* the acknowledgement of each command, as the claim lists them
AckOf ==
  ("LOCK" :> <<"D","o","o","r"," ","L","o","c","k","e","d">>) @@
  ("UNLOCK" :> <<"D","o","o","r"," ","U","n","l","o","c","k","e","d">>) @@
  ("TRUNK" :> <<"T","r","u","n","k"," ","R","e","l","e","a","s","e","d">>) @@
  ("LOCATE" :> <<"L","o","c","a","t","e","d">>) @@
  ("ELIGHT" :> <<"E","m","e","r","g","e","n","c","y"," ","L","i","g","h","t">>)

LockOutcome(locked) ==
  /\ ev'.kind = "cmd"
  /\ ev'.act = IF locked THEN "LOCK" ELSE "UNLOCK"
  /\ ev'.notes = <<AckOf[IF locked THEN "LOCK" ELSE "UNLOCK"]>>
  /\ isLocked' = locked

\* C23: right after an executed and acknowledged LOCK, isLocked is true and
\* a second LOCK again drives the lock pin, is again acknowledged and leaves
\* isLocked true; likewise UNLOCK with isLocked false
C23_SecondLockActuatesAndStaysLocked ==
  \A locked \in BOOLEAN :
    LET text == IF locked THEN TXT_LOCK ELSE TXT_UNLOCK
    IN ( /\ ev.kind = "cmd"
         /\ ev.act = IF locked THEN "LOCK" ELSE "UNLOCK" )
       => /\ isLocked = locked
          /\ ev.notes = <<AckOf[ev.act]>>
          /\ ENABLED (OnWrite(text) /\ LockOutcome(locked))
          /\ ~ENABLED (OnWrite(text) /\ ~LockOutcome(locked))

\* C23 witness: a LOCK was executed while isLocked was already true
C23_LockedAndLockExecuted ==
  /\ ev.kind = "cmd" /\ ev.act = "LOCK" /\ isLocked
  /\ ENABLED (OnWrite(TXT_LOCK) /\ UNCHANGED vars)

C25_EveryDisconnectLeavesLocked ==
  [][ (ev'.kind = "disconnect" /\ OnDisconnect)
      => /\ isLocked'
         /\ (ev'.act = "LOCK") <=> ~isLocked
    ]_vars

\* a step of onWrite that is protocol misuse: a command text written before
\* both authentications completed, or an unknown text written after
MisuseStep ==
  /\ ev'.kind = "cmd"
  /\ \/ ~(bleAuthenticated /\ isAuthenticated) /\ \E v \in CmdValues : OnWrite(v)
     \/ bleAuthenticated /\ isAuthenticated /\ \E v \in UnknownValues : OnWrite(v)

\* C26 as stated: protocol misuse leaves the failure counter and the lockout
\* record of every peer unchanged
C26_MisuseLeavesCountersUnchanged ==
  [][ MisuseStep => UNCHANGED <<failedAttempts, lockoutUntil>> ]_vars

\* C26: protocol misuse never counts a failure and never starts a lockout:
\* the failure counters and lockout records stay as they were, except that a
\* write that finds the writer's lockout expired removes that record and
\* resets that counter to 0
C26_MisuseNeverCounted ==
  [][ MisuseStep
      => IF lastRemoteAddr \in DOMAIN lockoutUntil
            /\ ~(now < lockoutUntil[lastRemoteAddr])
         THEN /\ DOMAIN lockoutUntil' = DOMAIN lockoutUntil \ {lastRemoteAddr}
              /\ \A a \in DOMAIN lockoutUntil' : lockoutUntil'[a] = lockoutUntil[a]
              /\ failedAttempts' = [failedAttempts EXCEPT ![lastRemoteAddr] = 0]
         ELSE UNCHANGED <<failedAttempts, lockoutUntil>>
    ]_vars

\* C26 witness: a command text was rejected before authentication by a
\* write that found the peer's lockout expired
C26_RejectedCommandAfterExpiry ==
  /\ ev.kind = "cmd" /\ ev.gate = "expired" /\ ev.act = "NONE"
  /\ ~isAuthenticated
  /\ lastRemoteAddr \notin DOMAIN lockoutUntil
  /\ failedAttempts[lastRemoteAddr] = 0

\* what a lockout check for addr has to do in a step: report the peer locked
\* out exactly when a record exists and now is before its expiry, leaving
\* record and counter alone; and when the record's expiry has passed, remove
\* the record and leave the counter at 0, or at spent when the same step
\* went on to count a failure of its own
LockoutCheckDone(addr, spent) ==
  LET found == addr \in DOMAIN lockoutUntil
      inForce == found /\ now < lockoutUntil[addr]
  IN /\ (ev'.gate = "locked") <=> inForce
     /\ inForce => UNCHANGED <<lockoutUntil, failedAttempts>>
     /\ (found /\ ~inForce)
          => /\ ev'.gate = "expired"
             /\ addr \notin DOMAIN lockoutUntil'
             /\ failedAttempts'[addr] = spent
             /\ MAX_FAILED_ATTEMPTS - failedAttempts'[addr] >= 4

\* C27: the lockout checks of onWrite and of the connection-parameter event
\* find the peer locked out iff a record exists and now < expiry; a check
\* that finds an expired record removes it and resets the peer's counter to
\* 0 (a response that fails in the same write counts as the first of the
\* five new attempts)
C27_LockedOutIffRecordBeforeExpiry ==
  [][ /\ (ev'.kind = "update" /\ GapUpdateConnParams)
         => LockoutCheckDone(lastRemoteAddr', 0)
      /\ CmdStep => LockoutCheckDone(lastRemoteAddr, 0)
      /\ RespStep
         => LockoutCheckDone(lastRemoteAddr,
                             IF isAuthenticated' /\ ev'.notes = <<AUTH_OK>>
                             THEN 0 ELSE 1)
    ]_vars

\* C27 witness: a response written after the expiry of the peer's lockout
\* was verified and accepted
C27_AcceptedByCheckAfterExpiry ==
  /\ ev.kind = "resp" /\ ev.gate = "expired" /\ ev.notes = <<AUTH_OK>>
  /\ lastRemoteAddr \notin DOMAIN lockoutUntil
  /\ failedAttempts[lastRemoteAddr] = 0

\* the integer arithmetic mean of a buffer of samples in [-100, 0]
MeanOf(buffer) == -((-accumulate(buffer)) \div Len(buffer))

\* lockStatus as the auto-trigger of the step found it: after the button
\* command of the same pass of loop(), if that wrote LOCK or UNLOCK
StatusAtCheck ==
  IF kev'.out # <<>> /\ ~kev'.out[1].auto /\ kev'.out[1].cmd = "LOCK"
  THEN "LOCKED"
  ELSE IF kev'.out # <<>> /\ ~kev'.out[1].auto /\ kev'.out[1].cmd = "UNLOCK"
  THEN "UNLOCKED"
  ELSE lockStatus

\* C28 (averaging variant): every UNLOCK an auto-trigger writes is written
\* with the mean of the buffer above RSSI_THRESHOLD_UNLOCK and lockStatus
\* NONE or LOCKED, every LOCK an auto-trigger writes with the mean below
\* RSSI_THRESHOLD_LOCK and lockStatus UNLOCKED
C28_AutoCommandOnlyPastThreshold ==
  [][ (kev' # kev /\ rssiBuffer' # <<>>)
      => \A i \in DOMAIN kev'.out :
           kev'.out[i].auto
           => /\ kev'.out[i].cmd \in {"UNLOCK", "LOCK"}
              /\ kev'.out[i].cmd = "UNLOCK"
                 => /\ MeanOf(rssiBuffer') > RSSI_THRESHOLD_UNLOCK
                    /\ StatusAtCheck \in {"NONE", "LOCKED"}
              /\ kev'.out[i].cmd = "LOCK"
                 => /\ MeanOf(rssiBuffer') < RSSI_THRESHOLD_LOCK
                    /\ StatusAtCheck = "UNLOCKED"
    ]_vars

\* a history of raw samples that oscillates between the value just below
\* the unlock threshold and the value just above the lock threshold (the
\* median variant uses RSSI_THRESHOLD for both)
Oscillating(history) ==
  /\ \A i \in DOMAIN history :
       history[i] \in {RSSI_THRESHOLD - 1, RSSI_THRESHOLD + 1}
  /\ \A i \in 1..(Len(history) - 1) : history[i] # history[i + 1]

\* C29 (median variant): once the auto-trigger has settled (its auto UNLOCK
\* is the last command written and lockStatus is as that left it), a periodic
\* check whose samples oscillate between T_unlock - 1 and T_lock + 1 writes
\* no auto command, even with the confirmation delay elapsed
C29_NoAutoCommandInsideBand ==
  [][ ( /\ lastAutoWrite.cmd = "UNLOCK"
        /\ lockStatus = "UNLOCKED" /\ ~isManualLock
        /\ kev' # kev /\ kev'.kind = "loop"
        /\ Oscillating(rssiHistory')
        /\ keyNow - lastRssiTriggerTime >= RSSI_CONFIRMATION_DELAY )
      => \A i \in DOMAIN kev'.out : ~kev'.out[i].auto
    ]_vars

\* C30 (median variant): a command written by an auto-trigger, that of the
\* authentication-complete callback included, is written at least
\* RSSI_CONFIRMATION_DELAY after the previous one on the same connection
C30_AutoCommandsSeparatedByDelay ==
  [][ ( /\ lastAutoWrite.cmd # "NONE"
        /\ kev' # kev
        /\ \E i \in DOMAIN kev'.out : kev'.out[i].auto )
      => keyNow - lastAutoWrite.at >= RSSI_CONFIRMATION_DELAY
    ]_vars

\* a pass of loop() in which the button wrote the command cmd
ManualWrite(cmd) ==
  /\ kev' # kev /\ kev'.kind = "loop"
  /\ kev'.out # <<>> /\ ~kev'.out[1].auto /\ kev'.out[1].cmd = cmd

\* isManualLock as the auto-trigger of the step found it: after the button
\* command of the same pass of loop(), if that wrote LOCK or UNLOCK
ManualAtCheck ==
  IF ManualWrite("LOCK") THEN TRUE
  ELSE IF ManualWrite("UNLOCK") THEN FALSE
  ELSE isManualLock

\* C31 (median variant): a manual LOCK sets the manual-override flag; while
\* the flag is set no auto-trigger writes UNLOCK; and the flag, once set, is
\* cleared only by a manual UNLOCK or by a fresh start of the key (the only
\* way to a fresh authentication cycle)
C31_ManualLockHoldsUntilManualUnlock ==
  [][ /\ ManualWrite("LOCK") => \/ isManualLock'
                                \/ \E i \in DOMAIN kev'.out : kev'.out[i].cmd = "UNLOCK"
      /\ (kev' # kev /\ \E i \in DOMAIN kev'.out :
                          kev'.out[i].auto /\ kev'.out[i].cmd = "UNLOCK")
           => ~ManualAtCheck
      /\ (isManualLock /\ ~isManualLock')
           => ManualWrite("UNLOCK") \/ keyPc' = "setup"
    ]_vars

\* C32 (median variant): the manual-override flag is set only by a LOCK the
\* user commanded: a step in which the flag becomes set is a pass of loop()
\* whose button wrote LOCK, never a step whose only LOCK is an auto-trigger's
C32_ManualFlagSetOnlyByManualLock ==
  [][ (~isManualLock /\ isManualLock') => ManualWrite("LOCK") ]_vars

---------------------------------------------------------------------------
(* The signal window of the key on its own: samples arrive one by one, and *)
(* each variant's addRSSI and metric are applied to them                   *)

\* the readings getRssi() hands over: inside and outside [-100, 0], and on
\* both sides of RSSI_THRESHOLD
WindowSamples == { -101, -100, RSSI_THRESHOLD - 1, RSSI_THRESHOLD + 1, 0, 1 }

\* addRSSI(rssi) of both variants on the same reading
AddRSSI(rssi) ==
  /\ rssiHistory' = addRSSI(rssiHistory, rssi)
  /\ rssiBuffer' = addRSSIAvg(rssiBuffer, rssi)
  /\ kev' = [KevBase("addRSSI") EXCEPT !.metric = <<rssi>>]
  /\ UNCHANGED <<ctlVars, connected, lockStatus, connectionRetries,
                 lastRssiCheckTime, lastRssiTriggerTime, isManualLock,
                 pWriteCharacteristic, keyPc, keyNow, lastAutoWrite>>

\* getMedianRSSI(): the sort works on the copy sortedHistory
GetMedianRSSI ==
  /\ rssiHistory' = rssiHistory
  /\ kev' = [KevBase("getMedianRSSI") EXCEPT
               !.metric = <<getMedianRSSI(rssiHistory)>>]
  /\ UNCHANGED <<ctlVars, connected, rssiBuffer, lockStatus,
                 connectionRetries, lastRssiCheckTime, lastRssiTriggerTime,
                 isManualLock, pWriteCharacteristic, keyPc, keyNow,
                 lastAutoWrite>>

\* getAverageRSSI()
GetAverageRSSI ==
  /\ rssiBuffer' = rssiBuffer
  /\ kev' = [KevBase("getAverageRSSI") EXCEPT
               !.metric = <<getAverageRSSI(rssiBuffer)>>]
  /\ UNCHANGED <<ctlVars, connected, rssiHistory, lockStatus,
                 connectionRetries, lastRssiCheckTime, lastRssiTriggerTime,
                 isManualLock, pWriteCharacteristic, keyPc, keyNow,
                 lastAutoWrite>>

NextWindow ==
  \/ \E rssi \in WindowSamples : AddRSSI(rssi)
  \/ GetMedianRSSI
  \/ GetAverageRSSI

SpecWindow == Init /\ [][NextWindow]_vars

\* what addRSSI must make of window and reading: the window unchanged for a
\* reading outside [-100, 0]; otherwise the reading last, before it the old
\* window in its order, without its oldest sample when that makes more than
\* size samples
WindowFollows(old, new, rssi, size) ==
  IF rssi < -100 \/ rssi > 0 THEN new = old
  ELSE /\ Len(new) = (IF Len(old) + 1 > size THEN size ELSE Len(old) + 1)
       /\ new[Len(new)] = rssi
       /\ \A i \in 1 .. Len(new) - 1 : new[i] = old[i + Len(old) + 1 - Len(new)]

\* C33 (both variants): the window never holds more than 5 samples, and
\* every addRSSI leaves the accepted reading at the end with the previous
\* samples before it in arrival order, the oldest dropped beyond 5: the
\* window is the last min(n, 5) accepted readings in arrival order
C33_WindowIsLastFiveAccepted ==
  /\ [](Len(rssiHistory) <= 5 /\ Len(rssiBuffer) <= 5)
  /\ [][ kev'.kind = "addRSSI"
           => /\ WindowFollows(rssiHistory, rssiHistory', kev'.metric[1], 5)
              /\ WindowFollows(rssiBuffer, rssiBuffer', kev'.metric[1], 5)
       ]_vars

\* a full window whose newest sample differs from all the others has just
\* taken that sample in
C33_FullWindowTookSample ==
  /\ kev.kind = "addRSSI"
  /\ Len(rssiHistory) = 5 /\ Len(rssiBuffer) = 5
  /\ rssiHistory[5] = kev.metric[1] /\ rssiBuffer[5] = kev.metric[1]
  /\ \A i \in 1 .. 4 : rssiHistory[i] # rssiHistory[5]

\* v is the element that stands at position size/2 (counted from 0) of the
\* sorted window: a sample with at most size/2 samples below it and at most
\* (size - 1)/2 above it
IsMiddleOf(history, v) ==
  /\ \E i \in DOMAIN history : history[i] = v
  /\ Cardinality({ i \in DOMAIN history : history[i] < v }) <= Len(history) \div 2
  /\ Cardinality({ i \in DOMAIN history : history[i] > v })
       <= (Len(history) - 1) \div 2

\* C34 (median variant): getMedianRSSI returns the middle element of the
\* sorted window for every window of 1..5 samples (-127 for the empty one),
\* leaves the window as it was, order included, and in a full window of 5 one
\* sample on the other side of RSSI_THRESHOLD than the other four does not
\* move the result to its side
C34_MedianIsMiddleAndOutlierProof ==
  [][ kev'.kind = "getMedianRSSI"
        => /\ rssiHistory' = rssiHistory
           /\ rssiHistory = <<>> => kev'.metric = <<-127>>
           /\ rssiHistory # <<>> => IsMiddleOf(rssiHistory, kev'.metric[1])
           /\ ( /\ Len(rssiHistory) = 5
                /\ Cardinality({ i \in 1 .. 5 : rssiHistory[i] > RSSI_THRESHOLD }) >= 4 )
                => kev'.metric[1] > RSSI_THRESHOLD
           /\ ( /\ Len(rssiHistory) = 5
                /\ Cardinality({ i \in 1 .. 5 : rssiHistory[i] < RSSI_THRESHOLD }) >= 4 )
                => kev'.metric[1] < RSSI_THRESHOLD
    ]_vars

\* the median of a full unsorted window with one outlier far below the
\* threshold among four samples above it has been taken
C34_MedianTakenWithOutlier ==
  /\ kev.kind = "getMedianRSSI"
  /\ rssiHistory = << RSSI_THRESHOLD + 1, 0, -100, RSSI_THRESHOLD + 1, 0 >>
  /\ kev.metric = << RSSI_THRESHOLD + 1 >>

\* C39 (averaging variant): for every buffer of 1..5 samples in [-100, 0]
\* getAverageRSSI returns the integer arithmetic mean, a value in [-100, 0]
\* between the smallest and the largest sample, and for the empty buffer it
\* returns -127
C39_AverageIsMeanWithinRange ==
  [][ kev'.kind = "getAverageRSSI"
        => /\ rssiBuffer = <<>> => kev'.metric = <<-127>>
           /\ rssiBuffer # <<>>
                => /\ kev'.metric[1] = MeanOf(rssiBuffer)
                   /\ kev'.metric[1] >= -100 /\ kev'.metric[1] <= 0
                   /\ \E i \in DOMAIN rssiBuffer : rssiBuffer[i] <= kev'.metric[1]
                   /\ \E i \in DOMAIN rssiBuffer : rssiBuffer[i] >= kev'.metric[1]
    ]_vars

\* C35 (median variant): failed connection attempts are counted from one
\* attempt to the next: when the key is back in setup() after a failed
\* attempt and its sleep, the retry count is at least 1 (so that the third
\* consecutive failure finds 3 and chooses the 60 s sleep), and the sleep
\* that was chosen is the short one or the long one
C35_FailedAttemptsCountedAcrossSleep ==
  kev.kind = "connect_fail"
    => /\ connectionRetries >= 1
       /\ kev.sleep \in { CONNECTION_RETRY_DELAY_MS \div 1000, LONG_SLEEP_DURATION_S }

\* no start of the key follows a sleep of LONG_SLEEP_DURATION_S
C35_LongSleepNeverChosen == kev.sleep # LONG_SLEEP_DURATION_S

\* C36: the periodic sweep leaves a peer whose record it removes as the lazy
\* expiry check would: the record absent and the peer's failure counter 0
C36_SweepResetsCounterLikeLazyCheck ==
  [][ LoopSweep
        => \A addr \in (DOMAIN lockoutUntil) \ (DOMAIN lockoutUntil') :
             failedAttempts'[addr] = 0
    ]_vars

---------------------------------------------------------------------------
(* The controller with two peers that connect in turn *)

\* the texts the peers write here: an empty response and a command
PeerWriteValues == { RESP_PREFIX, TXT_UNLOCK }

NextPeers ==
  \/ \E p \in Peers, cid \in ConnIds : OnConnect(p, cid)
  \/ OnDisconnect
  \/ GapUpdateConnParams
  \/ \E success \in BOOLEAN : GapAuthCmpl(success)
  \/ \E pass_key \in PassKeys : OnConfirmPIN(pass_key)
  \/ \E success \in BOOLEAN : OnAuthenticationComplete(success)
  \/ \E v \in PeerWriteValues : OnWrite(v)

SpecPeers == Init /\ [][NextPeers]_vars

\* the lockout record of address a is not the same after the step
RecordChanged(a) ==
  \/ (a \in DOMAIN lockoutUntil) # (a \in DOMAIN lockoutUntil')
  \/ a \in DOMAIN lockoutUntil /\ a \in DOMAIN lockoutUntil'
       /\ lockoutUntil'[a] # lockoutUntil[a]

\* C37: the failure counter and the lockout record of a peer change only in
\* steps of a connection that this peer holds; what another peer does on its
\* own connection never counts against it and never locks it out
C37_CountersChangeOnlyOnOwnConnection ==
  [][ \A p \in Peers :
        ( \/ failedAttempts'[macToString(p)] # failedAttempts[macToString(p)]
          \/ RecordChanged(macToString(p)) )
          => connPeer = p
    ]_vars

---------------------------------------------------------------------------
(* The controller with its idle deep sleep *)

INITIAL_BOOT_DELAY == 120000

\* loop(): past the initial boot period, with no device connected for
\* CONNECTION_TIMEOUT (2 s, which pass within one step of the clock here),
\* the controller enters deep sleep; the timer wakes it and the program
\* starts again from setup() with every global re-initialised, millis() at 0
\* and the whitelist reloaded from the store, which alone survives
DeepSleepWake ==
  /\ ~deviceConnected
  /\ now >= INITIAL_BOOT_DELAY
  /\ deviceConnected' = FALSE
  /\ isAuthenticated' = FALSE
  /\ bleAuthenticated' = FALSE
  /\ currentConnId' = 0
  /\ lastDisconnectReason' = "NORMAL"
  /\ isLocked' = FALSE
  /\ nvs' = nvs
  /\ whitelist' = loadWhitelist(nvs)
  /\ failedAttempts' = [a \in Addrs |-> 0]
  /\ lockoutUntil' = << >>
  /\ challenges' = << >>
  /\ lastRemoteAddr' = <<>>
  /\ now' = 0
  /\ connPeer' = NoPeer
  /\ ev' = EvBase("wake")
  /\ UNCHANGED keyVars

NextSleep ==
  \/ Next
  \/ DeepSleepWake

SpecSleep == Init /\ [][NextSleep]_vars

\* C38: a lockout in force when the controller enters its idle deep sleep is
\* in force when it wakes (the wake comes 10 s later, before the expiry):
\* the peer is still rejected after the wake
C38_LockoutSurvivesDeepSleep ==
  [][ DeepSleepWake
        => \A a \in Addrs :
             lockoutInForce(lockoutUntil, a, now)
               => lockoutInForce(lockoutUntil', a, now')
    ]_vars

\* the command that stands for a lock status
CommandFor(status) == IF status = "UNLOCKED" THEN "UNLOCK" ELSE "LOCK"

\* C40 (median variant): lockStatus follows what was written: a step of
\* connectToServer, onAuthenticationComplete or loop() that leaves lockStatus
\* changed to UNLOCKED or LOCKED wrote the corresponding command as its last
\* LOCK/UNLOCK command, and an authentication-complete callback that runs
\* while connected is true and the write characteristic is not yet
\* discovered does not make lockStatus UNLOCKED
C40_LockStatusFollowsWrittenCommand ==
  [][ /\ ( /\ kev'.kind \in {"discovered", "auth_ok", "loop"}
           /\ lockStatus' # lockStatus
           /\ lockStatus' \in {"UNLOCKED", "LOCKED"} )
        => LET sent == SelectSeq(kev'.out,
                                 LAMBDA w : w.cmd \in {"LOCK", "UNLOCK"})
           IN sent # <<>> /\ sent[Len(sent)].cmd = CommandFor(lockStatus')
      /\ ( /\ kev'.kind = "auth_ok" /\ kev' # kev
           /\ connected /\ ~pWriteCharacteristic )
        => lockStatus' = lockStatus /\ lockStatus' # "UNLOCKED"
    ]_vars

\* the authentication-complete callback has run with the link up and the
\* write characteristic not yet discovered
C40_AuthCompleteBeforeDiscovery ==
  /\ kev.kind = "auth_ok"
  /\ connected /\ ~pWriteCharacteristic
  /\ kev.out = <<>>
  /\ lockStatus = "NONE"

\* an auto-trigger has written UNLOCK and lockStatus is UNLOCKED
C40_AutoUnlockWritten ==
  /\ kev.kind \in {"discovered", "auth_ok", "loop"}
  /\ kev.out = << [cmd |-> "UNLOCK", auto |-> TRUE] >>
  /\ lockStatus = "UNLOCKED"

=============================================================================
